---- MODULE Spec2Model ----
(***************************************************************************)
(* GitHub-Analyser: the GET /api/analyze request pipeline.                 *)
(*                                                                         *)
(* The model covers the rate limiter (checkRateLimit and its process-wide  *)
(* rateLimitMap), the input validators, the two request handlers of the    *)
(* repository (the one with the limiter and the older variant under        *)
(* api/analyze.js), analyzeCandidate and analyzeWithOpenAI.                *)
(*                                                                         *)
(* JavaScript strings are sequences of one-character strings; a query      *)
(* parameter is a tagged value: absent, a string, or an array (a repeated  *)
(* parameter).  Time is in milliseconds, as Date.now() returns it.         *)
(***************************************************************************)
EXTENDS Integers, Sequences, FiniteSets, Bags, TLC

(***************************************************************************)
(* Strings                                                                 *)
(***************************************************************************)
UpperChars == <<"A","B","C","D","E","F","G","H","I","J","K","L","M",
                "N","O","P","Q","R","S","T","U","V","W","X","Y","Z">>

LowerChars == <<"a","b","c","d","e","f","g","h","i","j","k","l","m",
                "n","o","p","q","r","s","t","u","v","w","x","y","z">>

Digits == <<"0","1","2","3","4","5","6","7","8","9">>

Range(s) == {s[i] : i \in DOMAIN s}

\* a sequence given as a function on 1..n, as a tuple
AsTuple(f) == f \o <<>>

\* s repeated n times
Rep(s, n) == AsTuple([i \in 1..(n * Len(s)) |-> s[((i - 1) % Len(s)) + 1]])

\* String.prototype.trim
Trim(s) ==
    LET keep == {i \in DOMAIN s : s[i] # " "}
    IN  IF keep = {} THEN <<>>
        ELSE LET lo == CHOOSE i \in keep : \A j \in keep : i <= j
                 hi == CHOOSE i \in keep : \A j \in keep : j <= i
             IN  SubSeq(s, lo, hi)

LowerChar(c) ==
    IF \E i \in DOMAIN UpperChars : UpperChars[i] = c
    THEN LowerChars[CHOOSE i \in DOMAIN UpperChars : UpperChars[i] = c]
    ELSE c

\* String.prototype.toLowerCase
ToLowerCase(s) == AsTuple([i \in DOMAIN s |-> LowerChar(s[i])])

\* the k-th smallest element of a finite set of integers
Nth(S, k) == CHOOSE i \in S : Cardinality({j \in S : j <= i}) = k

\* Array.prototype.map(s => s.trim())
TrimAll(xs) == AsTuple([i \in DOMAIN xs |-> Trim(xs[i])])

\* String.prototype.split(","): the pieces between consecutive commas
SplitComma(s) ==
    LET commas == {i \in DOMAIN s : s[i] = ","}
        n == Cardinality(commas)
        from(k) == IF k = 1 THEN 1 ELSE Nth(commas, k - 1) + 1
        to(k) == IF k = n + 1 THEN Len(s) ELSE Nth(commas, k) - 1
    IN  AsTuple([k \in 1..(n + 1) |-> SubSeq(s, from(k), to(k))])

\* Array.prototype.filter(Boolean) on an array of strings: drops ""
FilterNonEmpty(xs) ==
    LET keep == {i \in DOMAIN xs : xs[i] # <<>>}
    IN  AsTuple([k \in 1..Cardinality(keep) |-> xs[Nth(keep, k)]])

\* array.join(", ") of strings given as TLA+ sequences of characters
RECURSIVE JoinComma(_)
JoinComma(xs) ==
    IF xs = <<>> THEN <<>>
    ELSE IF Len(xs) = 1 THEN xs[1]
    ELSE xs[1] \o <<",", " ">> \o JoinComma(Tail(xs))

IsAlnum(c) ==
    \/ c \in Range(UpperChars)
    \/ c \in Range(LowerChars)
    \/ c \in Range(Digits)

\* github-username-regex: /^[a-z\d](?:[a-z\d]|-(?=[a-z\d])){0,38}$/i
githubUsernameRegex(s) ==
    /\ Len(s) >= 1
    /\ Len(s) <= 39
    /\ IsAlnum(s[1])
    /\ \A i \in 2..Len(s) :
          \/ IsAlnum(s[i])
          \/ s[i] = "-" /\ i < Len(s) /\ IsAlnum(s[i + 1])

(***************************************************************************)
(* Query parameter values                                                  *)
(***************************************************************************)
Undef == [t |-> "undef"]
Str(s) == [t |-> "str", s |-> s]
Arr == [t |-> "arr"]

\* JavaScript truthiness of a query value: undefined and "" are falsy
Truthy(v) == \/ v.t = "arr"
             \/ v.t = "str" /\ v.s # <<>>

IsString(v) == v.t = "str"

(***************************************************************************)
(* Exceptions: a thrown value is a record with its class and message       *)
(***************************************************************************)
Ok(v) == [ok |-> TRUE, v |-> v]
\* msg is the message template, field the field name it is about ("" if none), list
\* the text spliced in after the template (the valid values, the names of the fields)
Throw(cls, msg, field, list) ==
    [ok |-> FALSE, cls |-> cls, msg |-> msg, field |-> field, list |-> list]

(***************************************************************************)
(* Input validators                                                        *)
(***************************************************************************)
MaxUsernameLen == 39
MaxJobTitleLen == 100
MaxSkills == 50
MaxSkillLen == 50

\* validateUsername without the test of the GitHub username grammar
validateUsername_NoGrammar(username) ==
    IF ~Truthy(username) \/ ~IsString(username)
    THEN Throw("CustomError", "Username is required and must be a string", "username", <<>>)
    ELSE LET trimmedUsername == Trim(username.s)
         IN  IF Len(trimmedUsername) = 0
             THEN Throw("CustomError", "Username cannot be empty", "username", <<>>)
             ELSE IF Len(trimmedUsername) > MaxUsernameLen
             THEN Throw("CustomError", "Username must be 39 characters or less", "username", <<>>)
             ELSE Ok(trimmedUsername)

validateUsername(username) ==
    IF ~Truthy(username) \/ ~IsString(username)
    THEN Throw("CustomError", "Username is required and must be a string", "username", <<>>)
    ELSE LET trimmedUsername == Trim(username.s)
         IN  IF Len(trimmedUsername) = 0
             THEN Throw("CustomError", "Username cannot be empty", "username", <<>>)
             ELSE IF Len(trimmedUsername) > MaxUsernameLen
             THEN Throw("CustomError", "Username must be 39 characters or less", "username", <<>>)
             ELSE IF ~githubUsernameRegex(trimmedUsername)
             THEN Throw("CustomError", "Invalid GitHub username format", "username", <<>>)
             ELSE Ok(trimmedUsername)

validateStringInput(value, fieldName, maxLength) ==
    IF ~Truthy(value) \/ ~IsString(value)
    THEN Throw("CustomError", "${fieldName} is required and must be a string", fieldName, <<>>)
    ELSE LET trimmed == Trim(value.s)
         IN  IF Len(trimmed) = 0
             THEN Throw("CustomError", "${fieldName} cannot be empty", fieldName, <<>>)
             ELSE IF Len(trimmed) > maxLength
             THEN Throw("CustomError", "${fieldName} must be ${maxLength} characters or less", fieldName, <<>>)
             ELSE Ok(trimmed)

\* validateSkills with the count test written `skills.length >= 50`
validateSkills_RejectsFifty(skillsString, fieldName, required) ==
    IF ~Truthy(skillsString)
    THEN IF required
         THEN Throw("CustomError", "${fieldName} is required", fieldName, <<>>)
         ELSE Ok(<<>>)
    ELSE IF ~IsString(skillsString)
    THEN Throw("CustomError", "${fieldName} must be a comma-separated string", fieldName, <<>>)
    ELSE LET skills == FilterNonEmpty(TrimAll(SplitComma(skillsString.s)))
         IN  IF required /\ Len(skills) = 0
             THEN Throw("CustomError", "${fieldName} must contain at least one skill", fieldName, <<>>)
             ELSE IF Len(skills) >= MaxSkills
             THEN Throw("CustomError", "${fieldName} cannot contain more than 50 skills", fieldName, <<>>)
             ELSE IF \E i \in DOMAIN skills : Len(skills[i]) > MaxSkillLen
             THEN Throw("CustomError", "Each skill in ${fieldName} must be 50 characters or less", fieldName, <<>>)
             ELSE Ok(skills)

validateSkills(skillsString, fieldName, required) ==
    IF ~Truthy(skillsString)
    THEN IF required
         THEN Throw("CustomError", "${fieldName} is required", fieldName, <<>>)
         ELSE Ok(<<>>)
    ELSE IF ~IsString(skillsString)
    THEN Throw("CustomError", "${fieldName} must be a comma-separated string", fieldName, <<>>)
    ELSE LET skills == FilterNonEmpty(TrimAll(SplitComma(skillsString.s)))
         IN  IF required /\ Len(skills) = 0
             THEN Throw("CustomError", "${fieldName} must contain at least one skill", fieldName, <<>>)
             ELSE IF Len(skills) > MaxSkills
             THEN Throw("CustomError", "${fieldName} cannot contain more than 50 skills", fieldName, <<>>)
             ELSE IF \E i \in DOMAIN skills : Len(skills[i]) > MaxSkillLen
             THEN Throw("CustomError", "Each skill in ${fieldName} must be 50 characters or less", fieldName, <<>>)
             ELSE Ok(skills)

\* new MissingParamError(missedParams): its message names the parameters it is
\* given (here already joined with ", ")
MissingParamError(missedParams) ==
    Throw("MissingParamError", "Missing params", "", missedParams)

\* the field names MissingParamError is constructed with, joined with ", "
GroupFields ==
    JoinComma(<< <<"j","o","b","_","t","i","t","l","e">>,
                 <<"r","e","q","u","i","r","e","d","_","s","k","i","l","l","s">>,
                 <<"s","e","n","i","o","r","i","t","y">>,
                 <<"f","o","c","u","s">> >>)

validSeniority == << <<"j","u","n","i","o","r">>, <<"m","i","d">>, <<"s","e","n","i","o","r">> >>

validFocus == << <<"f","r","o","n","t","e","n","d">>, <<"b","a","c","k","e","n","d">>,
                 <<"f","u","l","l","s","t","a","c","k">>, <<"d","a","t","a">>,
                 <<"i","n","f","r","a">> >>

\* parseJobRole with the check of the required group after the individual checks
parseJobRole_IndividualFirst(query) ==
    LET validatedJobTitle == validateStringInput(query.job_title, "job_title", MaxJobTitleLen)
        validatedRequiredSkills == validateSkills(query.required_skills, "required_skills", TRUE)
        validatedNiceToHaveSkills ==
            validateSkills(query.nice_to_have_skills, "nice_to_have_skills", FALSE)
    IN  IF ~validatedJobTitle.ok THEN validatedJobTitle
        ELSE IF ~validatedRequiredSkills.ok THEN validatedRequiredSkills
        ELSE IF ~validatedNiceToHaveSkills.ok THEN validatedNiceToHaveSkills
        ELSE IF \/ ~Truthy(query.job_title) \/ ~Truthy(query.required_skills)
                \/ ~Truthy(query.seniority) \/ ~Truthy(query.focus)
        THEN MissingParamError(GroupFields)
        ELSE IF ~IsString(query.seniority)
        THEN Throw("TypeError", "toLowerCase is not a function", "seniority", <<>>)
        ELSE IF ToLowerCase(query.seniority.s) \notin Range(validSeniority)
        THEN Throw("CustomError", "Invalid seniority. Must be one of: ", "seniority",
                   JoinComma(validSeniority))
        ELSE IF ~IsString(query.focus)
        THEN Throw("TypeError", "toLowerCase is not a function", "focus", <<>>)
        ELSE IF ToLowerCase(query.focus.s) \notin Range(validFocus)
        THEN Throw("CustomError", "Invalid focus. Must be one of: ", "focus",
                   JoinComma(validFocus))
        ELSE Ok([title |-> validatedJobTitle.v,
                 required_skills |-> validatedRequiredSkills.v,
                 nice_to_have_skills |-> validatedNiceToHaveSkills.v,
                 seniority |-> ToLowerCase(query.seniority.s),
                 focus |-> ToLowerCase(query.focus.s)])

\* parseJobRole of the handler with the limiter
parseJobRole(query) ==
    IF \/ ~Truthy(query.job_title) \/ ~Truthy(query.required_skills)
       \/ ~Truthy(query.seniority) \/ ~Truthy(query.focus)
    THEN MissingParamError(GroupFields)
    ELSE
    LET validatedJobTitle == validateStringInput(query.job_title, "job_title", MaxJobTitleLen)
        validatedRequiredSkills == validateSkills(query.required_skills, "required_skills", TRUE)
        validatedNiceToHaveSkills ==
            validateSkills(query.nice_to_have_skills, "nice_to_have_skills", FALSE)
    IN  IF ~validatedJobTitle.ok THEN validatedJobTitle
        ELSE IF ~validatedRequiredSkills.ok THEN validatedRequiredSkills
        ELSE IF ~validatedNiceToHaveSkills.ok THEN validatedNiceToHaveSkills
        ELSE IF ~IsString(query.seniority)
        THEN Throw("TypeError", "toLowerCase is not a function", "seniority", <<>>)
        ELSE IF ToLowerCase(query.seniority.s) \notin Range(validSeniority)
        THEN Throw("CustomError", "Invalid seniority. Must be one of: ", "seniority",
                   JoinComma(validSeniority))
        ELSE IF ~IsString(query.focus)
        THEN Throw("TypeError", "toLowerCase is not a function", "focus", <<>>)
        ELSE IF ToLowerCase(query.focus.s) \notin Range(validFocus)
        THEN Throw("CustomError", "Invalid focus. Must be one of: ", "focus",
                   JoinComma(validFocus))
        ELSE Ok([title |-> validatedJobTitle.v,
                 required_skills |-> validatedRequiredSkills.v,
                 nice_to_have_skills |-> validatedNiceToHaveSkills.v,
                 seniority |-> ToLowerCase(query.seniority.s),
                 focus |-> ToLowerCase(query.focus.s)])

\* the skill list of the variant handler: split, trim, drop empty entries
SkillList(v) == FilterNonEmpty(TrimAll(SplitComma(v.s)))

\* parseJobRole of the variant handler (api/analyze.js): no length or count checks
parseJobRoleVariant(query) ==
    IF \/ ~Truthy(query.job_title) \/ ~Truthy(query.required_skills)
       \/ ~Truthy(query.seniority) \/ ~Truthy(query.focus)
    THEN MissingParamError(GroupFields)
    ELSE IF ~IsString(query.seniority)
    THEN Throw("TypeError", "toLowerCase is not a function", "seniority", <<>>)
    ELSE IF ToLowerCase(query.seniority.s) \notin Range(validSeniority)
    THEN Throw("CustomError", "Invalid seniority. Must be one of: ", "seniority",
               JoinComma(validSeniority))
    ELSE IF ~IsString(query.focus)
    THEN Throw("TypeError", "toLowerCase is not a function", "focus", <<>>)
    ELSE IF ToLowerCase(query.focus.s) \notin Range(validFocus)
    THEN Throw("CustomError", "Invalid focus. Must be one of: ", "focus",
               JoinComma(validFocus))
    ELSE IF ~IsString(query.required_skills)
    THEN Throw("TypeError", "split is not a function", "required_skills", <<>>)
    ELSE IF Truthy(query.nice_to_have_skills) /\ ~IsString(query.nice_to_have_skills)
    THEN Throw("TypeError", "split is not a function", "nice_to_have_skills", <<>>)
    ELSE Ok([title |-> query.job_title,
             required_skills |-> SkillList(query.required_skills),
             nice_to_have_skills |->
                 IF Truthy(query.nice_to_have_skills)
                 THEN SkillList(query.nice_to_have_skills) ELSE <<>>,
             seniority |-> ToLowerCase(query.seniority.s),
             focus |-> ToLowerCase(query.focus.s)])

(***************************************************************************)
(* Rate limiter                                                            *)
(***************************************************************************)
\* the arguments the handler passes to checkRateLimit
HandlerMaxRequests == 10
HandlerWindowMs == 60000

\* checkRateLimit with the limit test written `count > maxRequests`
checkRateLimit_OffByOne(m, identifier, maxRequests, windowMs, t) ==
    IF identifier \notin DOMAIN m
    THEN [allowed |-> TRUE, remaining |-> maxRequests - 1, resetAt |-> t + windowMs,
          map |-> [k \in DOMAIN m \cup {identifier} |->
                      IF k = identifier
                      THEN [count |-> 1, resetAt |-> t + windowMs]
                      ELSE m[k]]]
    ELSE LET record == m[identifier]
         IN  IF t > record.resetAt
             THEN [allowed |-> TRUE, remaining |-> maxRequests - 1,
                   resetAt |-> t + windowMs,
                   map |-> [m EXCEPT ![identifier] =
                               [count |-> 1, resetAt |-> t + windowMs]]]
             ELSE IF record.count > maxRequests
             THEN [allowed |-> FALSE, remaining |-> 0, resetAt |-> record.resetAt,
                   map |-> m]
             ELSE [allowed |-> TRUE, remaining |-> maxRequests - (record.count + 1),
                   resetAt |-> record.resetAt,
                   map |-> [m EXCEPT ![identifier].count = record.count + 1]]

\* checkRateLimit without `record.count++`
checkRateLimit_NoIncrement(m, identifier, maxRequests, windowMs, t) ==
    IF identifier \notin DOMAIN m
    THEN [allowed |-> TRUE, remaining |-> maxRequests - 1, resetAt |-> t + windowMs,
          map |-> [k \in DOMAIN m \cup {identifier} |->
                      IF k = identifier
                      THEN [count |-> 1, resetAt |-> t + windowMs]
                      ELSE m[k]]]
    ELSE LET record == m[identifier]
         IN  IF t > record.resetAt
             THEN [allowed |-> TRUE, remaining |-> maxRequests - 1,
                   resetAt |-> t + windowMs,
                   map |-> [m EXCEPT ![identifier] =
                               [count |-> 1, resetAt |-> t + windowMs]]]
             ELSE IF record.count >= maxRequests
             THEN [allowed |-> FALSE, remaining |-> 0, resetAt |-> record.resetAt,
                   map |-> m]
             ELSE [allowed |-> TRUE, remaining |-> maxRequests - (record.count + 1),
                   resetAt |-> record.resetAt,
                   map |-> m]

\* checkRateLimit rolling over at `now >= record.resetAt`
checkRateLimit_RolloverAtReset(m, identifier, maxRequests, windowMs, t) ==
    IF identifier \notin DOMAIN m
    THEN [allowed |-> TRUE, remaining |-> maxRequests - 1, resetAt |-> t + windowMs,
          map |-> [k \in DOMAIN m \cup {identifier} |->
                      IF k = identifier
                      THEN [count |-> 1, resetAt |-> t + windowMs]
                      ELSE m[k]]]
    ELSE LET record == m[identifier]
         IN  IF t >= record.resetAt
             THEN [allowed |-> TRUE, remaining |-> maxRequests - 1,
                   resetAt |-> t + windowMs,
                   map |-> [m EXCEPT ![identifier] =
                               [count |-> 1, resetAt |-> t + windowMs]]]
             ELSE IF record.count >= maxRequests
             THEN [allowed |-> FALSE, remaining |-> 0, resetAt |-> record.resetAt,
                   map |-> m]
             ELSE [allowed |-> TRUE, remaining |-> maxRequests - (record.count + 1),
                   resetAt |-> record.resetAt,
                   map |-> [m EXCEPT ![identifier].count = record.count + 1]]

\* checkRateLimit moving resetAt on with every allowed call
checkRateLimit_SlidingWindow(m, identifier, maxRequests, windowMs, t) ==
    IF identifier \notin DOMAIN m
    THEN [allowed |-> TRUE, remaining |-> maxRequests - 1, resetAt |-> t + windowMs,
          map |-> [k \in DOMAIN m \cup {identifier} |->
                      IF k = identifier
                      THEN [count |-> 1, resetAt |-> t + windowMs]
                      ELSE m[k]]]
    ELSE LET record == m[identifier]
         IN  IF t > record.resetAt
             THEN [allowed |-> TRUE, remaining |-> maxRequests - 1,
                   resetAt |-> t + windowMs,
                   map |-> [m EXCEPT ![identifier] =
                               [count |-> 1, resetAt |-> t + windowMs]]]
             ELSE IF record.count >= maxRequests
             THEN [allowed |-> FALSE, remaining |-> 0, resetAt |-> record.resetAt,
                   map |-> m]
             ELSE [allowed |-> TRUE, remaining |-> maxRequests - (record.count + 1),
                   resetAt |-> t + windowMs,
                   map |-> [m EXCEPT ![identifier] =
                               [count |-> record.count + 1, resetAt |-> t + windowMs]]]

\* checkRateLimit creating the record with count 0
checkRateLimit_CountFromZero(m, identifier, maxRequests, windowMs, t) ==
    IF identifier \notin DOMAIN m
    THEN [allowed |-> TRUE, remaining |-> maxRequests - 1, resetAt |-> t + windowMs,
          map |-> [k \in DOMAIN m \cup {identifier} |->
                      IF k = identifier
                      THEN [count |-> 0, resetAt |-> t + windowMs]
                      ELSE m[k]]]
    ELSE LET record == m[identifier]
         IN  IF t > record.resetAt
             THEN [allowed |-> TRUE, remaining |-> maxRequests - 1,
                   resetAt |-> t + windowMs,
                   map |-> [m EXCEPT ![identifier] =
                               [count |-> 1, resetAt |-> t + windowMs]]]
             ELSE IF record.count >= maxRequests
             THEN [allowed |-> FALSE, remaining |-> 0, resetAt |-> record.resetAt,
                   map |-> m]
             ELSE [allowed |-> TRUE, remaining |-> maxRequests - (record.count + 1),
                   resetAt |-> record.resetAt,
                   map |-> [m EXCEPT ![identifier].count = record.count + 1]]

\* remaining computed from the count before the increment
checkRateLimit_StaleRemaining(m, identifier, maxRequests, windowMs, t) ==
    IF identifier \notin DOMAIN m
    THEN [allowed |-> TRUE, remaining |-> maxRequests - 1, resetAt |-> t + windowMs,
          map |-> [k \in DOMAIN m \cup {identifier} |->
                      IF k = identifier
                      THEN [count |-> 1, resetAt |-> t + windowMs]
                      ELSE m[k]]]
    ELSE LET record == m[identifier]
         IN  IF t > record.resetAt
             THEN [allowed |-> TRUE, remaining |-> maxRequests - 1,
                   resetAt |-> t + windowMs,
                   map |-> [m EXCEPT ![identifier] =
                               [count |-> 1, resetAt |-> t + windowMs]]]
             ELSE IF record.count >= maxRequests
             THEN [allowed |-> FALSE, remaining |-> 0, resetAt |-> record.resetAt,
                   map |-> m]
             ELSE [allowed |-> TRUE, remaining |-> maxRequests - record.count,
                   resetAt |-> record.resetAt,
                   map |-> [m EXCEPT ![identifier].count = record.count + 1]]

\* a denied call starting the window afresh: the wait begins again
checkRateLimit_DenyExtendsWindow(m, identifier, maxRequests, windowMs, t) ==
    IF identifier \notin DOMAIN m
    THEN [allowed |-> TRUE, remaining |-> maxRequests - 1, resetAt |-> t + windowMs,
          map |-> [k \in DOMAIN m \cup {identifier} |->
                      IF k = identifier
                      THEN [count |-> 1, resetAt |-> t + windowMs]
                      ELSE m[k]]]
    ELSE LET record == m[identifier]
         IN  IF t > record.resetAt
             THEN [allowed |-> TRUE, remaining |-> maxRequests - 1,
                   resetAt |-> t + windowMs,
                   map |-> [m EXCEPT ![identifier] =
                               [count |-> 1, resetAt |-> t + windowMs]]]
             ELSE IF record.count >= maxRequests
             THEN [allowed |-> FALSE, remaining |-> 0, resetAt |-> t + windowMs,
                   map |-> [m EXCEPT ![identifier].resetAt = t + windowMs]]
             ELSE [allowed |-> TRUE, remaining |-> maxRequests - (record.count + 1),
                   resetAt |-> record.resetAt,
                   map |-> [m EXCEPT ![identifier].count = record.count + 1]]

\* checkRateLimit(identifier, maxRequests, windowMs) run at Date.now() = t on the
\* map m (a function from the known identifiers to their records); the result
\* carries the returned object and the map as the call leaves it
checkRateLimit(m, identifier, maxRequests, windowMs, t) ==
    IF identifier \notin DOMAIN m
    THEN [allowed |-> TRUE, remaining |-> maxRequests - 1, resetAt |-> t + windowMs,
          map |-> [k \in DOMAIN m \cup {identifier} |->
                      IF k = identifier
                      THEN [count |-> 1, resetAt |-> t + windowMs]
                      ELSE m[k]]]
    ELSE LET record == m[identifier]
         IN  IF t > record.resetAt
             THEN [allowed |-> TRUE, remaining |-> maxRequests - 1,
                   resetAt |-> t + windowMs,
                   map |-> [m EXCEPT ![identifier] =
                               [count |-> 1, resetAt |-> t + windowMs]]]
             ELSE IF record.count >= maxRequests
             THEN [allowed |-> FALSE, remaining |-> 0, resetAt |-> record.resetAt,
                   map |-> m]
             ELSE [allowed |-> TRUE, remaining |-> maxRequests - (record.count + 1),
                   resetAt |-> record.resetAt,
                   map |-> [m EXCEPT ![identifier].count = record.count + 1]]

\* the first token taken as it is, with the spaces around it
getClientIdentifier_NoTrim(req) ==
    IF Truthy(req.forwarded)
    THEN SplitComma(req.forwarded.s)[1]
    ELSE IF Truthy(req.realIp) THEN req.realIp.s
    ELSE IF Truthy(req.remoteAddress) THEN req.remoteAddress.s
    ELSE <<"u","n","k","n","o","w","n">>

\* a request's transport data: the two proxy headers and the peer address, each
\* a string or absent
getClientIdentifier(req) ==
    IF Truthy(req.forwarded)
    THEN Trim(SplitComma(req.forwarded.s)[1])
    ELSE IF Truthy(req.realIp) THEN req.realIp.s
    ELSE IF Truthy(req.remoteAddress) THEN req.remoteAddress.s
    ELSE <<"u","n","k","n","o","w","n">>

\* the division by 1000 left out: milliseconds instead of seconds
CeilDiv1000_Millis(x) == x

\* Math.ceil(x / 1000) for an integer x
CeilDiv1000(x) == IF x % 1000 = 0 THEN x \div 1000 ELSE (x \div 1000) + 1

(***************************************************************************)
(* Scoring client (analyzeWithOpenAI)                                      *)
(*                                                                         *)
(* A JSON value met in the field confidence_percentage: absent (Undef), a  *)
(* number, a string, null, a boolean or an object.  NaN is the one extra   *)
(* number the arithmetic can produce.                                      *)
(***************************************************************************)
Num(n) == [t |-> "num", n |-> n]
NaN == [t |-> "nan"]
Null == [t |-> "null"]

TypeofNumber(v) == v.t \in {"num", "nan"}

\* truthiness of a JSON value
JsTruthy(v) ==
    CASE v.t = "num" -> v.n # 0
      [] v.t = "str" -> v.s # <<>>
      [] v.t = "bool" -> v.b
      [] v.t = "obj" -> TRUE
      [] OTHER -> FALSE

DigitValue(c) == (CHOOSE i \in DOMAIN Digits : Digits[i] = c) - 1

RECURSIVE DecimalValue(_)
DecimalValue(ds) ==
    IF ds = <<>> THEN 0
    ELSE 10 * DecimalValue(SubSeq(ds, 1, Len(ds) - 1)) + DigitValue(ds[Len(ds)])

AllDigits(ds) == ds # <<>> /\ \A i \in DOMAIN ds : ds[i] \in Range(Digits)

\* ToNumber on a string: blank is 0, an optionally signed run of decimal digits
\* is its value, every other text is NaN
StringToNumber(s) ==
    LET w == Trim(s)
    IN  IF w = <<>> THEN Num(0)
        ELSE IF AllDigits(w) THEN Num(DecimalValue(w))
        ELSE IF w[1] = "-" /\ AllDigits(Tail(w)) THEN Num(0 - DecimalValue(Tail(w)))
        ELSE IF w[1] = "+" /\ AllDigits(Tail(w)) THEN Num(DecimalValue(Tail(w)))
        ELSE NaN

\* ToNumber, the coercion Math.min and Math.max apply to their arguments
ToNumber(v) ==
    CASE v.t = "num" -> v
      [] v.t = "nan" -> NaN
      [] v.t = "str" -> StringToNumber(v.s)
      [] v.t = "null" -> Num(0)
      [] v.t = "bool" -> IF v.b THEN Num(1) ELSE Num(0)
      [] OTHER -> NaN

MathMin(a, b) ==
    LET x == ToNumber(a)
        y == ToNumber(b)
    IN  IF x.t = "nan" \/ y.t = "nan" THEN NaN
        ELSE IF x.n <= y.n THEN x ELSE y

MathMax(a, b) ==
    LET x == ToNumber(a)
        y == ToNumber(b)
    IN  IF x.t = "nan" \/ y.t = "nan" THEN NaN
        ELSE IF x.n >= y.n THEN x ELSE y

\* a relational comparison of a JSON value with a number (v < n, v > n): it is
\* false whenever the coerced value is NaN
JsLess(v, n) == LET x == ToNumber(v) IN x.t = "num" /\ x.n < n
JsGreater(v, n) == LET x == ToNumber(v) IN x.t = "num" /\ x.n > n

\* the confidence_percentage the client is handed back, given the one parsed
ClampConfidence(cp) ==
    IF /\ cp.t # "undef"
       /\ (~TypeofNumber(cp) \/ JsLess(cp, 0) \/ JsGreater(cp, 100))
    THEN MathMax(Num(0), MathMin(Num(100), IF JsTruthy(cp) THEN cp ELSE Num(50)))
    ELSE cp

Sections == {"engineer_summary", "job_fit_analysis", "hiring_recommendation",
             "recommendations"}

\* What the scoring engine does with one request (the environment's choice):
\*   kind     "http401", "http429", "httpOther" (any other error status),
\*            "timeout" (no answer within the 60 s timeout), "noChoices"
\*            (a 2xx body without a choices array), "noContent", "badJson"
\*            (content that JSON.parse rejects), "jsonNull" (content "null"),
\*            "json" (content that parses to an object)
\*   sections the top-level sections of the parsed object that are truthy
\*   conf     hiring_recommendation.confidence_percentage of the parsed object
\*   message  error.message of the JSON payload of an error status (<<>> when the
\*            payload has none)
Reply(kind, sections, conf) ==
    [kind |-> kind, sections |-> sections, conf |-> conf, message |-> <<>>]

\* an error status whose payload carries the given error.message
ErrorReply(kind, message) ==
    [kind |-> kind, sections |-> {}, conf |-> Undef, message |-> message]

\* error.message of the exception axios throws: its own text, not the engine's
AxiosMessage(kind) ==
    IF kind = "timeout" THEN <<"timeout of 60000ms exceeded">>
    ELSE <<"Request failed with status code">>

\* error.response?.data?.error?.message || error.message
UnderlyingMessage(reply) ==
    IF reply.message # <<>> THEN reply.message ELSE AxiosMessage(reply.kind)

\* analyzeWithOpenAI without the branches for the statuses 401 and 429
analyzeWithOpenAI_Unclassified(apiKey, reply) ==
    IF apiKey = ""
    THEN Throw("CustomError", "OpenAI API key is required. Set OPENAI_API_KEY environment variable.",
               "", <<>>)
    ELSE CASE reply.kind \in {"http401", "http429", "httpOther", "timeout"} ->
                Throw("CustomError", "OpenAI API error: ", "", UnderlyingMessage(reply))
           [] reply.kind = "noChoices" ->
                Throw("TypeError", "Cannot read properties of undefined", "", <<>>)
           [] reply.kind = "noContent" ->
                Throw("CustomError", "No response content from OpenAI", "", <<>>)
           [] reply.kind = "badJson" ->
                Throw("CustomError", "Invalid JSON response from OpenAI", "", <<>>)
           [] reply.kind = "jsonNull" ->
                Throw("TypeError", "Cannot read properties of null", "", <<>>)
           [] OTHER ->
                IF reply.sections # Sections
                THEN Throw("CustomError", "Invalid analysis response structure from OpenAI",
                           "", <<>>)
                ELSE Ok([sections |-> reply.sections,
                         confidence_percentage |-> ClampConfidence(reply.conf)])

\* analyzeWithOpenAI without the check of the four sections
analyzeWithOpenAI_NoStructureCheck(apiKey, reply) ==
    IF apiKey = ""
    THEN Throw("CustomError", "OpenAI API key is required. Set OPENAI_API_KEY environment variable.",
               "", <<>>)
    ELSE CASE reply.kind = "http401" ->
                Throw("CustomError", "Invalid OpenAI API key", "", <<>>)
           [] reply.kind = "http429" ->
                Throw("CustomError", "OpenAI API rate limit exceeded", "", <<>>)
           [] reply.kind \in {"httpOther", "timeout"} ->
                Throw("CustomError", "OpenAI API error: ", "", UnderlyingMessage(reply))
           [] reply.kind = "noChoices" ->
                Throw("TypeError", "Cannot read properties of undefined", "", <<>>)
           [] reply.kind = "noContent" ->
                Throw("CustomError", "No response content from OpenAI", "", <<>>)
           [] reply.kind = "badJson" ->
                Throw("CustomError", "Invalid JSON response from OpenAI", "", <<>>)
           [] reply.kind = "jsonNull" ->
                Throw("TypeError", "Cannot read properties of null", "", <<>>)
           [] OTHER ->
                IF FALSE
                THEN Throw("CustomError", "Invalid analysis response structure from OpenAI",
                           "", <<>>)
                ELSE Ok([sections |-> reply.sections,
                         confidence_percentage |-> ClampConfidence(reply.conf)])

analyzeWithOpenAI(apiKey, reply) ==
    IF apiKey = ""
    THEN Throw("CustomError", "OpenAI API key is required. Set OPENAI_API_KEY environment variable.",
               "", <<>>)
    ELSE CASE reply.kind = "http401" ->
                Throw("CustomError", "Invalid OpenAI API key", "", <<>>)
           [] reply.kind = "http429" ->
                Throw("CustomError", "OpenAI API rate limit exceeded", "", <<>>)
           [] reply.kind \in {"httpOther", "timeout"} ->
                Throw("CustomError", "OpenAI API error: ", "", UnderlyingMessage(reply))
           [] reply.kind = "noChoices" ->
                Throw("TypeError", "Cannot read properties of undefined", "", <<>>)
           [] reply.kind = "noContent" ->
                Throw("CustomError", "No response content from OpenAI", "", <<>>)
           [] reply.kind = "badJson" ->
                Throw("CustomError", "Invalid JSON response from OpenAI", "", <<>>)
           [] reply.kind = "jsonNull" ->
                Throw("TypeError", "Cannot read properties of null", "", <<>>)
           [] OTHER ->
                IF reply.sections # Sections
                THEN Throw("CustomError", "Invalid analysis response structure from OpenAI",
                           "", <<>>)
                ELSE Ok([sections |-> reply.sections,
                         confidence_percentage |-> ClampConfidence(reply.conf)])

(***************************************************************************)
(* Data aggregator (aggregateGitHubData and its derived signals)           *)
(*                                                                         *)
(* A quotient of two numbers is kept exact, as a fraction in lowest terms: *)
(* the doubles the code computes compare with each other and with the      *)
(* literals 0.3, 0.4, 0.7, 1, 2, 10, 50 and 200 as these fractions do, the *)
(* operands being far below 2^53.                                          *)
(***************************************************************************)
Gcd(a, b) ==
    IF a = 0 THEN b
    ELSE CHOOSE g \in 1..b : /\ a % g = 0 /\ b % g = 0
                             /\ \A h \in (g + 1)..b : a % h # 0 \/ b % h # 0

\* n / d for d > 0
Frac(n, d) == LET g == Gcd(n, d) IN [n |-> n \div g, d |-> d \div g]

FracLess(x, y) == x.n * y.d < y.n * x.d

\* the cut points compared with <= in place of <
calculateCommitFrequency_InclusiveCuts(totalCommits, accountAgeYears) ==
    IF accountAgeYears = 0 THEN "low"
    ELSE LET commitsPerYear == Frac(totalCommits, accountAgeYears)
         IN  IF ~FracLess(Frac(50, 1), commitsPerYear) THEN "low"
             ELSE IF ~FracLess(Frac(200, 1), commitsPerYear) THEN "medium"
             ELSE "high"

calculateCommitFrequency(totalCommits, accountAgeYears) ==
    IF accountAgeYears = 0 THEN "low"
    ELSE LET commitsPerYear == Frac(totalCommits, accountAgeYears)
         IN  IF FracLess(commitsPerYear, Frac(50, 1)) THEN "low"
             ELSE IF FracLess(commitsPerYear, Frac(200, 1)) THEN "medium"
             ELSE "high"

calculateCommitConsistency(totalCommits, accountAgeYears) ==
    IF accountAgeYears = 0 THEN "sporadic"
    ELSE LET commitsPerYear == Frac(totalCommits, accountAgeYears)
             commitsPerMonth == Frac(commitsPerYear.n, commitsPerYear.d * 12)
         IN  IF FracLess(commitsPerMonth, Frac(2, 1)) THEN "sporadic"
             ELSE IF FracLess(commitsPerMonth, Frac(10, 1)) THEN "consistent"
             ELSE "very_consistent"

\* a repository object: its description is null or a string
Repo(description) == [description |-> description]

\* repositories.filter(repo => repo.description && repo.description.length > n).length
LongerThan(repositories, n) ==
    Cardinality({i \in DOMAIN repositories :
                    /\ JsTruthy(repositories[i].description)
                    /\ Len(repositories[i].description.s) > n})

\* the cut points of the two signals exchanged
assessReadmeQuality_DocumentationCuts(repositories) ==
    IF Len(repositories) = 0 THEN "poor"
    ELSE LET reposWithDescriptions == LongerThan(repositories, 20)
             ratio == Frac(reposWithDescriptions, Len(repositories))
         IN  IF FracLess(ratio, Frac(4, 10)) THEN "poor"
             ELSE IF FracLess(ratio, Frac(7, 10)) THEN "average"
             ELSE "strong"

assessReadmeQuality(repositories) ==
    IF Len(repositories) = 0 THEN "poor"
    ELSE LET reposWithDescriptions == LongerThan(repositories, 20)
             ratio == Frac(reposWithDescriptions, Len(repositories))
         IN  IF FracLess(ratio, Frac(3, 10)) THEN "poor"
             ELSE IF FracLess(ratio, Frac(7, 10)) THEN "average"
             ELSE "strong"

assessDocumentationSignal(repositories) ==
    IF Len(repositories) = 0 THEN "low"
    ELSE LET reposWithDescriptions == LongerThan(repositories, 30)
             ratio == Frac(reposWithDescriptions, Len(repositories))
         IN  IF FracLess(ratio, Frac(4, 10)) THEN "low"
             ELSE IF FracLess(ratio, Frac(7, 10)) THEN "medium"
             ELSE "high"

calculateCollaborationSignals(repositories, contributedTo) ==
    LET totalRepos == Len(repositories)
    IN  IF totalRepos = 0
        THEN [solo_projects_ratio |-> Frac(1, 1), team_projects_ratio |-> Frac(0, 1)]
        ELSE LET ratio == Frac(contributedTo, totalRepos + contributedTo)
                 teamProjectsRatio ==
                     IF FracLess(Frac(1, 1), ratio) THEN Frac(1, 1) ELSE ratio
             IN  [solo_projects_ratio |->
                      Frac(teamProjectsRatio.d - teamProjectsRatio.n, teamProjectsRatio.d),
                  team_projects_ratio |-> teamProjectsRatio]

\* A Date: the day it falls on, counted from the day the model's clock starts,
\* and the milliseconds into that day
Date(day, ms) == [day |-> day, ms |-> ms]

\* Math.floor((a - b) / (1000 * 60 * 60 * 24)), the whole days from b to a
DaysBetween(a, b) == (a.day - b.day) + ((a.ms - b.ms) \div (1000 * 60 * 60 * 24))

\* What retryer(profileFetcher, ...) settles with: a response whose body carries
\* errors, a response whose body carries the user, or a rejection
ProfileData(totalRepos, totalFollowers, createdAt) ==
    Ok([errors |-> FALSE,
        user |-> [repositories |-> [totalCount |-> totalRepos],
                  followers |-> [totalCount |-> totalFollowers],
                  createdAt |-> createdAt]])

\* fetchUserProfile after `await retryer(...)`: a rejection is not caught
fetchUserProfile(res, today) ==
    IF ~res.ok THEN res
    ELSE IF res.v.errors
    THEN Ok([public_repos |-> 0, followers |-> 0, account_age_years |-> 1])
    ELSE LET user == res.v.user
             accountAgeYears ==
                 LET years == DaysBetween(today, user.createdAt) \div 365
                 IN  IF years > 1 THEN years ELSE 1
         IN  Ok([public_repos |-> user.repositories.totalCount,
                 followers |-> user.followers.totalCount,
                 account_age_years |-> accountAgeYears])

\* Object.values(topLangs) is a sequence of [name, size]
RECURSIVE SumSizes(_)
SumSizes(langs) ==
    IF langs = <<>> THEN 0 ELSE langs[1].size + SumSizes(Tail(langs))

\* .map(percentage).sort((a, b) => b.percentage - a.percentage).slice(0, 5):
\* the sort is stable, so equal percentages keep their order
PrimaryLanguages(topLangs) ==
    LET totalLangSize == SumSizes(topLangs)
        mapped == [i \in DOMAIN topLangs |->
                     [language |-> topLangs[i].name,
                      percentage |-> IF totalLangSize > 0
                                     THEN Frac(topLangs[i].size * 100, totalLangSize)
                                     ELSE Frac(0, 1)]]
        before(j, i) == \/ FracLess(mapped[i].percentage, mapped[j].percentage)
                        \/ /\ mapped[i].percentage = mapped[j].percentage
                           /\ j < i
        rank(i) == Cardinality({j \in DOMAIN topLangs : before(j, i)}) + 1
        n == IF Len(topLangs) < 5 THEN Len(topLangs) ELSE 5
    IN  AsTuple([k \in 1..n |-> mapped[CHOOSE i \in DOMAIN topLangs : rank(i) = k]])

\* the list filled with repositories that have long descriptions
topRepositories_Filled ==
    <<Repo(Str(Rep(<<"d">>, 40))), Repo(Str(Rep(<<"d">>, 40))), Repo(Str(Rep(<<"d">>, 40)))>>

\* the list handed to the heuristics is a placeholder that nothing fills
topRepositories == <<>>

\* the body of aggregateGitHubData after the three fetches have resolved
aggregateGitHubData(username, stats, topLangs, profile) ==
    LET accountAgeYears == profile.account_age_years
    IN  [candidate |->
             [username |-> username,
              profile |-> [public_repos |-> profile.public_repos,
                           followers |-> profile.followers,
                           account_age_years |-> accountAgeYears]],
         github_stats |->
             [total_commits_estimate |-> stats.totalCommits,
              commit_frequency |->
                  calculateCommitFrequency(stats.totalCommits, accountAgeYears),
              commit_consistency |->
                  calculateCommitConsistency(stats.totalCommits, accountAgeYears),
              primary_languages |-> PrimaryLanguages(topLangs),
              top_repositories |-> topRepositories,
              pull_requests |-> [opened |-> stats.totalPRs,
                                 merged |-> stats.totalPRsMerged,
                                 reviewed |-> stats.totalReviews],
              issues |-> [opened |-> 0, closed |-> stats.totalIssues],
              collaboration_signals |->
                  calculateCollaborationSignals(topRepositories, stats.contributedTo),
              readme_quality |-> assessReadmeQuality(topRepositories),
              documentation_signal |-> assessDocumentationSignal(topRepositories)],
         job_role |-> Null]

(***************************************************************************)
(* Requests the clients send                                               *)
(***************************************************************************)
ModelNames == [gpt4o |-> <<"g","p","t","-","4","o">>, gpt4turbo |-> <<"g","p","t","-","4","-","t","u","r","b","o">>, gpt4 |-> <<"g","p","t","-","4">>,
               gpt35turbo |-> <<"g","p","t","-","3",".","5","-","t","u","r","b","o">>]

validModels == <<ModelNames.gpt4o, ModelNames.gpt4turbo, ModelNames.gpt4,
                 ModelNames.gpt35turbo>>

\* test-api.sh, Test 1 (with the parameters of the spec's end-to-end scenario)
BaseQuery ==
    [username |-> Str(<<"o","c","t","o","c","a","t">>),
     job_title |-> Str(<<"E","n","g","i","n","e","e","r">>),
     required_skills |-> Str(<<"J","a","v","a","S","c","r","i","p","t">>),
     nice_to_have_skills |-> Undef,
     seniority |-> Str(<<"m","i","d">>),
     focus |-> Str(<<"f","r","o","n","t","e","n","d">>),
     openai_model |-> Undef,
     openai_api_key |-> Undef]

UsernameSamples ==
    {Undef, Str(<<>>), Str(<<" ", " ">>), Arr,
     Str(<<"i","n","v","a","l","i","d","@","u","s","e","r">>), Str(<<"o","c","t","o","-">>), Str(<<"a","-","-","b">>),
     Str(Rep(<<"a">>, MaxUsernameLen + 1)), Str(Rep(<<"a">>, MaxUsernameLen)),
     Str(<<" ","O","c","t","o","-","C","a","t"," ">>)}

JobTitleSamples ==
    {Undef, Str(<<" ">>), Arr, Str(Rep(<<"t">>, MaxJobTitleLen + 1)),
     Str(Rep(<<"t">>, MaxJobTitleLen))}

SkillsSamples ==
    {Undef, Str(<<",">>), Arr, Str(<<" ","J","S",","," ",",","R","e","a","c","t"," ">>),
     Str(Rep(<<"s", ",">>, MaxSkills + 1)), Str(Rep(<<"s", ",">>, MaxSkills)),
     Str(Rep(<<"k">>, MaxSkillLen + 1))}

SenioritySamples == {Undef, Arr, Str(<<"i","n","v","a","l","i","d">>), Str(<<"S","E","N","I","O","R">>)}

FocusSamples == {Undef, Arr, Str(<<"b","a","d">>), Str(<<"D","a","t","a">>)}

\* the usernames a validator is tried on: every string of at most MaxNameLen
\* characters over NameAlphabet, and the samples above
MaxNameLen == 3

NameAlphabet == {"a", "Z", "9", "-", "_", " "}

UsernameInputs ==
    UsernameSamples
    \cup {Str(s) : s \in UNION {[1..n -> NameAlphabet] : n \in 0..MaxNameLen}}

UsernameQueries == {[BaseQuery EXCEPT !.username = v] : v \in UsernameInputs}

\* the job-role parameters in every combination of their samples, the empty
\* string included
JobRoleQueries ==
    {[BaseQuery EXCEPT !.job_title = t, !.required_skills = s, !.seniority = sn,
                       !.focus = f] :
        t \in JobTitleSamples \cup {BaseQuery.job_title, Str(<<>>)},
        s \in SkillsSamples \cup {BaseQuery.required_skills, Str(<<>>)},
        sn \in SenioritySamples \cup {BaseQuery.seniority, Str(<<>>)},
        f \in FocusSamples \cup {BaseQuery.focus, Str(<<>>)}}

\* the base query and every query that differs from it in one parameter, plus
\* two that combine a missing required parameter with an invalid one
Queries ==
    {BaseQuery}
    \cup {[BaseQuery EXCEPT !.username = v] : v \in UsernameSamples}
    \cup {[BaseQuery EXCEPT !.job_title = v] : v \in JobTitleSamples}
    \cup {[BaseQuery EXCEPT !.required_skills = v] : v \in SkillsSamples}
    \cup {[BaseQuery EXCEPT !.nice_to_have_skills = v] : v \in SkillsSamples}
    \cup {[BaseQuery EXCEPT !.seniority = v] : v \in SenioritySamples}
    \cup {[BaseQuery EXCEPT !.focus = v] : v \in FocusSamples}
    \cup {[BaseQuery EXCEPT !.openai_model = v] : v \in {Str(ModelNames.gpt4), Str(<<"g","p","t","-","5">>)}}
    \cup {[BaseQuery EXCEPT !.openai_api_key = v] : v \in {Str(<<"s","k","-","q">>)}}
    \cup {[BaseQuery EXCEPT !.seniority = Undef, !.focus = Str(<<"b","a","d">>)],
          [BaseQuery EXCEPT !.focus = Undef,
                            !.job_title = Str(Rep(<<"t">>, MaxJobTitleLen + 1))]}

\* where a request comes from: x-forwarded-for, x-real-ip, the peer address
Origin(forwarded, realIp, remoteAddress) ==
    [forwarded |-> forwarded, realIp |-> realIp, remoteAddress |-> remoteAddress]

Origins ==
    {Origin(Str(<<" ","1","0",".","0",".","0",".","1"," ",","," ","1","0",".","9",".","9",".","9">>), Str(<<"1","0",".","9",".","9",".","9">>), Str(<<"1","0",".","9",".","9",".","9">>)),
     Origin(Undef, Str(<<"1","0",".","0",".","0",".","1">>), Str(<<"1","0",".","9",".","9",".","9">>)),
     Origin(Undef, Undef, Undef)}

\* The validators' results on the requests above, tabulated once
UsernameResult == [q \in Queries |-> validateUsername(q.username)]
JobRoleResult == [q \in Queries |-> parseJobRole(q)]
JobRoleVariantResult == [q \in Queries |-> parseJobRoleVariant(q)]
ClientOf == [o \in Origins |-> getClientIdentifier(o)]

(***************************************************************************)
(* Responses                                                               *)
(***************************************************************************)
\* the headers of a response: which of them are set, and which of the two
\* cache-header sets (setCacheHeaders, setErrorCacheHeaders) were applied
NoHeaders ==
    [contentType |-> FALSE, limit |-> FALSE, remaining |-> FALSE, reset |-> FALSE,
     cache |-> {}]

\* res.status(status).json(body).  remainingValue and resetValue are the values
\* of X-RateLimit-Remaining and X-RateLimit-Reset when the step that sends the
\* response also set them, -1 otherwise
Response(status, hdrs, body) ==
    [status |-> status, hdrs |-> hdrs, body |-> body.kind, msg |-> body.msg,
     list |-> body.list, retryAfter |-> body.retryAfter,
     sections |-> body.sections, conf |-> body.conf,
     remainingValue |-> -1, resetValue |-> -1]

ErrorBody(msg, list) ==
    [kind |-> "error", msg |-> msg, list |-> list, retryAfter |-> -1, sections |-> {},
     conf |-> Undef]

RateLimitedBody(retryAfter) ==
    [kind |-> "rateLimited", msg |-> "Rate limit exceeded. Maximum 10 requests per minute.",
     list |-> <<>>, retryAfter |-> retryAfter, sections |-> {}, conf |-> Undef]

AnalysisBody(analysis) ==
    [kind |-> "analysis", msg |-> "", list |-> <<>>, retryAfter |-> -1,
     sections |-> analysis.sections, conf |-> analysis.confidence_percentage]

\* the catch block both handlers end with
CatchResponse(hdrs, error) ==
    LET h2 == [hdrs EXCEPT !.cache = @ \cup {"error"}]
    IN  IF error.cls = "MissingParamError"
        THEN Response(400, h2, ErrorBody(error.msg, error.list))
        ELSE IF error.cls = "CustomError"
        THEN Response(500, h2, ErrorBody(error.msg, error.list))
        ELSE Response(500, h2,
                 ErrorBody("An unexpected error occurred while analyzing the candidate", <<>>))

\* the statements after a successful analyzeCandidate
SuccessResponse(hdrs, analysis) ==
    Response(200, [hdrs EXCEPT !.cache = @ \cup {"success"}], AnalysisBody(analysis))

(***************************************************************************)
(* The synchronous part of the handlers: from the entry to the first await *)
(* (or to the response, when the request ends before it).  The result      *)
(* gives the responses sent, whether analyzeCandidate was started and with *)
(* which options, the stage the request stopped at and the class of the    *)
(* exception that stopped it.                                              *)
(***************************************************************************)
NoGate == [called |-> FALSE, allowed |-> FALSE, remaining |-> -1, resetAt |-> -1]

Sync(map, gate, responses, start, hdrs, model, key, stage, cls) ==
    [map |-> map, gate |-> gate, responses |-> responses, start |-> start,
     hdrs |-> hdrs, model |-> model, key |-> key, stage |-> stage, cls |-> cls]

\* the handler starting analyzeCandidate before it parses the job role
MainSyncWith_AnalyzeFirst(clientId, query, envKey, m, t, t2, validatedUsername, jobRole) ==
    LET rateLimit == checkRateLimit(m, clientId, HandlerMaxRequests, HandlerWindowMs, t)
        gate == [called |-> TRUE, allowed |-> rateLimit.allowed,
                 remaining |-> rateLimit.remaining, resetAt |-> rateLimit.resetAt]
        h0 == [NoHeaders EXCEPT !.contentType = TRUE]
        h1 == [h0 EXCEPT !.limit = TRUE, !.remaining = TRUE, !.reset = TRUE]
        withValues(r) ==
            [r EXCEPT !.remainingValue = IF rateLimit.allowed THEN rateLimit.remaining ELSE 0,
                      !.resetValue = rateLimit.resetAt]
        requestedModel ==
            IF Truthy(query.openai_model) THEN query.openai_model.s ELSE ModelNames.gpt4o
        model == IF requestedModel \in Range(validModels)
                 THEN requestedModel ELSE ModelNames.gpt4o
    IN  IF ~rateLimit.allowed
        THEN Sync(rateLimit.map, gate,
                  <<withValues(Response(429, h1,
                        RateLimitedBody(CeilDiv1000(rateLimit.resetAt - t2))))>>,
                  FALSE, h1, <<>>, "", "gate", "")
        ELSE IF ~validatedUsername.ok
        THEN Sync(rateLimit.map, gate,
                  <<withValues(Response(400, h1, ErrorBody(validatedUsername.msg, <<>>)))>>,
                  FALSE, h1, <<>>, "", "username", validatedUsername.cls)
        ELSE IF envKey = ""
        THEN Sync(rateLimit.map, gate,
                  <<withValues(Response(500, h1,
                        ErrorBody("OpenAI API key is not configured. Please set OPENAI_API_KEY environment variable.",
                                  <<>>)))>>,
                  FALSE, h1, <<>>, "", "apiKey", "")
        ELSE IF ~jobRole.ok
        THEN Sync(rateLimit.map, gate, <<withValues(CatchResponse(h1, jobRole))>>,
                  TRUE, h1, model, envKey, "jobRole", jobRole.cls)
        ELSE Sync(rateLimit.map, gate, <<>>, TRUE, h1, model, envKey, "aggregate", "")

\* the unit of budget given back to a request whose username is rejected
MainSyncWith_RefundsBadInput(clientId, query, envKey, m, t, t2, validatedUsername, jobRole) ==
    LET rateLimit == checkRateLimit(m, clientId, HandlerMaxRequests, HandlerWindowMs, t)
        gate == [called |-> TRUE, allowed |-> rateLimit.allowed,
                 remaining |-> rateLimit.remaining, resetAt |-> rateLimit.resetAt]
        h0 == [NoHeaders EXCEPT !.contentType = TRUE]
        h1 == [h0 EXCEPT !.limit = TRUE, !.remaining = TRUE, !.reset = TRUE]
        withValues(r) ==
            [r EXCEPT !.remainingValue = IF rateLimit.allowed THEN rateLimit.remaining ELSE 0,
                      !.resetValue = rateLimit.resetAt]
        requestedModel ==
            IF Truthy(query.openai_model) THEN query.openai_model.s ELSE ModelNames.gpt4o
        model == IF requestedModel \in Range(validModels)
                 THEN requestedModel ELSE ModelNames.gpt4o
    IN  IF ~rateLimit.allowed
        THEN Sync(rateLimit.map, gate,
                  <<withValues(Response(429, h1,
                        RateLimitedBody(CeilDiv1000(rateLimit.resetAt - t2))))>>,
                  FALSE, h1, <<>>, "", "gate", "")
        ELSE IF ~validatedUsername.ok
        THEN Sync(m, gate,
                  <<withValues(Response(400, h1, ErrorBody(validatedUsername.msg, <<>>)))>>,
                  FALSE, h1, <<>>, "", "username", validatedUsername.cls)
        ELSE IF envKey = ""
        THEN Sync(rateLimit.map, gate,
                  <<withValues(Response(500, h1,
                        ErrorBody("OpenAI API key is not configured. Please set OPENAI_API_KEY environment variable.",
                                  <<>>)))>>,
                  FALSE, h1, <<>>, "", "apiKey", "")
        ELSE IF ~jobRole.ok
        THEN Sync(rateLimit.map, gate, <<withValues(CatchResponse(h1, jobRole))>>,
                  FALSE, h1, model, envKey, "jobRole", jobRole.cls)
        ELSE Sync(rateLimit.map, gate, <<>>, TRUE, h1, model, envKey, "aggregate", "")

\* the handler with the limiter, run on the map m with an environment key
\* envKey ("" when OPENAI_API_KEY is not set); t is Date.now() inside
\* checkRateLimit and t2 >= t the later Date.now() of the 429 branch;
\* clientId is what getClientIdentifier(req) returns, validatedUsername and
\* jobRole are what validateUsername(username) and parseJobRole(req) return or
\* throw when the handler calls them
MainSyncWith(clientId, query, envKey, m, t, t2, validatedUsername, jobRole) ==
    LET rateLimit == checkRateLimit(m, clientId, HandlerMaxRequests, HandlerWindowMs, t)
        gate == [called |-> TRUE, allowed |-> rateLimit.allowed,
                 remaining |-> rateLimit.remaining, resetAt |-> rateLimit.resetAt]
        h0 == [NoHeaders EXCEPT !.contentType = TRUE]
        h1 == [h0 EXCEPT !.limit = TRUE, !.remaining = TRUE, !.reset = TRUE]
        withValues(r) ==
            [r EXCEPT !.remainingValue = IF rateLimit.allowed THEN rateLimit.remaining ELSE 0,
                      !.resetValue = rateLimit.resetAt]
        requestedModel ==
            IF Truthy(query.openai_model) THEN query.openai_model.s ELSE ModelNames.gpt4o
        model == IF requestedModel \in Range(validModels)
                 THEN requestedModel ELSE ModelNames.gpt4o
    IN  IF ~rateLimit.allowed
        THEN Sync(rateLimit.map, gate,
                  <<withValues(Response(429, h1,
                        RateLimitedBody(CeilDiv1000(rateLimit.resetAt - t2))))>>,
                  FALSE, h1, <<>>, "", "gate", "")
        ELSE IF ~validatedUsername.ok
        THEN Sync(rateLimit.map, gate,
                  <<withValues(Response(400, h1, ErrorBody(validatedUsername.msg, <<>>)))>>,
                  FALSE, h1, <<>>, "", "username", validatedUsername.cls)
        ELSE IF envKey = ""
        THEN Sync(rateLimit.map, gate,
                  <<withValues(Response(500, h1,
                        ErrorBody("OpenAI API key is not configured. Please set OPENAI_API_KEY environment variable.",
                                  <<>>)))>>,
                  FALSE, h1, <<>>, "", "apiKey", "")
        ELSE IF ~jobRole.ok
        THEN Sync(rateLimit.map, gate, <<withValues(CatchResponse(h1, jobRole))>>,
                  FALSE, h1, model, envKey, "jobRole", jobRole.cls)
        ELSE Sync(rateLimit.map, gate, <<>>, TRUE, h1, model, envKey, "aggregate", "")

\* the handler on a query of the tables
MainSync(origin, query, envKey, m, t, t2) ==
    MainSyncWith(ClientOf[origin], query, envKey, m, t, t2, UsernameResult[query],
                 JobRoleResult[query])

\* the variant handler (api/analyze.js): no limiter, the key may come from the
\* query, the model is passed on as given
VariantSync(query, envKey, m) ==
    LET h0 == [NoHeaders EXCEPT !.contentType = TRUE]
        apiKey == IF Truthy(query.openai_api_key) THEN "query" ELSE envKey
        model == IF Truthy(query.openai_model) THEN query.openai_model.s
                 ELSE ModelNames.gpt4o
        jobRole == JobRoleVariantResult[query]
    IN  IF ~Truthy(query.username)
        THEN Sync(m, NoGate,
                  <<Response(400, h0, ErrorBody("Missing required parameter: username", <<>>))>>,
                  FALSE, h0, <<>>, "", "username", "")
        ELSE IF apiKey = ""
        THEN Sync(m, NoGate,
                  <<Response(400, h0,
                        ErrorBody("OpenAI API key is required. Provide 'openai_api_key' query parameter or set OPENAI_API_KEY environment variable.",
                                  <<>>))>>,
                  FALSE, h0, <<>>, "", "apiKey", "")
        ELSE IF ~jobRole.ok
        THEN Sync(m, NoGate, <<CatchResponse(h0, jobRole)>>,
                  FALSE, h0, model, apiKey, "jobRole", jobRole.cls)
        ELSE Sync(m, NoGate, <<>>, TRUE, h0, model, apiKey, "aggregate", "")

(***************************************************************************)
(* The scoring engine's replies and the data source's outcomes             *)
(***************************************************************************)
\* the error.message of an error payload: none, or one of two texts
UpstreamMessages == {<<>>, <<"insufficient_quota">>, <<"model_not_found">>}

HttpErrorKinds == {"http401", "http429", "httpOther"}

Replies ==
    {Reply(k, {}, Undef) :
        k \in {"timeout", "noChoices", "noContent", "badJson", "jsonNull"}}
    \cup {ErrorReply(k, m) : k \in HttpErrorKinds, m \in UpstreamMessages}
    \cup {Reply("json", Sections \ {x}, Undef) : x \in Sections}
    \cup {Reply("json", Sections, c) :
              c \in {Undef, Num(75), Num(150), Num(-5), Null,
                     Str(<<"8","0">>), Str(<<"h","i","g","h">>)}}

(***************************************************************************)
(* State                                                                   *)
(***************************************************************************)
MaxInFlight == 2
MaxCallsPerWindow == 12

TimePoints == {0, HandlerWindowMs, HandlerWindowMs + 1}

ClientIds == {ClientOf[o] : o \in Origins}

\* the interval [ObservedFrom, ObservedFrom + 60 s) in which admissions are counted
ObservedFrom == HandlerWindowMs
ObservedTo == ObservedFrom + HandlerWindowMs

VARIABLES
    now,           \* the clock, what Date.now() returns
    rateLimitMap,  \* the module-level Map of checkRateLimit
    maxReq,        \* the maxRequests argument the callers of checkRateLimit pass
    envKey,        \* process.env.OPENAI_API_KEY ("" when not set)
    inflight,      \* the requests suspended at an await, as a bag
    out,           \* what the last step did: the call made, the response sent
    winCalls,      \* per identifier: checkRateLimit calls in its current window
    winAdmitted,   \* per identifier: of those, the calls that were allowed
    obsAdmitted,   \* per identifier: requests admitted in the observed interval
    valInput,      \* the argument a validator is applied to on its own
    valResult,     \* what the validator returned or threw for it
    pipe           \* the one request followed fetch by fetch through the pipeline

vars == <<now, rateLimitMap, maxReq, envKey, inflight, out, winCalls, winAdmitted,
          obsAdmitted, valInput, valResult, pipe>>

\* no validator has been applied on its own
NoInput == [fn |-> "none"]
NoResult == [fn |-> "none"]

\* a promise: pending (with an empty value of the kind it will resolve to), or
\* settled with what it resolved to or rejected with
Pending(empty) == [settled |-> FALSE, r |-> Ok(empty)]
Settled(r) == [settled |-> TRUE, r |-> r]

\* no request is being followed
NoRun ==
    [pc |-> "idle", hdrs |-> NoHeaders, model |-> <<>>, key |-> "",
     username |-> <<>>, jobRole |-> Null,
     stats |-> Pending(Null), topLangs |-> Pending(<<>>), profile |-> Pending(Null),
     res |-> Pending(Null), issued |-> FALSE,
     payload |-> [job_role |-> Null], posts |-> 0,
     resp |-> Response(0, NoHeaders, ErrorBody("", <<>>))]

\* no query: the step is not the arrival of a request
NoQuery == [username |-> Undef]

OutNone ==
    [ev |-> "none", h |-> "", id |-> <<>>, gate |-> NoGate, idx |-> 0,
     sent |-> 0, resp |-> Response(0, NoHeaders, ErrorBody("", <<>>)),
     stage |-> "", cls |-> "", gh |-> 0, ai |-> 0, model |-> <<>>, key |-> "",
     given |-> Undef, q |-> NoQuery, upstream |-> ErrorReply("", <<>>)]

\* a suspended request: where it waits, the handler that runs it, the headers
\* set so far, the options given to analyzeCandidate and the calls it has made
\* to the data source (gh) and to the scoring engine (ai)
Suspended(pc, h, hdrs, model, key, gh, ai) ==
    [pc |-> pc, h |-> h, hdrs |-> hdrs, model |-> model, key |-> key,
     gh |-> gh, ai |-> ai]

Add(bag, r) == bag (+) SetToBag({r})
Remove(bag, r) == bag (-) SetToBag({r})

InitCommon ==
    /\ now = 0
    /\ rateLimitMap = << >>
    /\ envKey \in {"", "env"}
    /\ inflight = EmptyBag
    /\ out = OutNone
    /\ winCalls = [c \in ClientIds |-> 0]
    /\ winAdmitted = [c \in ClientIds |-> 0]
    /\ obsAdmitted = [c \in ClientIds |-> 0]
    /\ pipe = NoRun

Init ==
    /\ InitCommon
    /\ maxReq = HandlerMaxRequests
    /\ valInput = NoInput
    /\ valResult = NoResult

\* the clock advances
Tick(t) ==
    /\ out.ev = "none"
    /\ t > now
    /\ now' = t
    /\ out' = OutNone
    /\ UNCHANGED <<rateLimitMap, maxReq, envKey, inflight, winCalls, winAdmitted,
                   obsAdmitted, valInput, valResult, pipe>>

\* the counters a call of checkRateLimit for id moves, given the map before, the
\* map after and whether the caller let the request through
CountCall(id, m, result, t, observe) ==
    LET newWindow == IF id \notin DOMAIN m THEN TRUE
                     ELSE result.map[id].resetAt # m[id].resetAt
        calls == IF newWindow THEN 1 ELSE winCalls[id] + 1
        admitted == (IF newWindow THEN 0 ELSE winAdmitted[id])
                    + (IF result.allowed THEN 1 ELSE 0)
    IN  /\ IF newWindow THEN TRUE ELSE winCalls[id] < MaxCallsPerWindow
        /\ winCalls' = [winCalls EXCEPT ![id] = calls]
        /\ winAdmitted' = [winAdmitted EXCEPT ![id] = admitted]
        /\ obsAdmitted' =
              IF observe /\ result.allowed /\ t >= ObservedFrom /\ t < ObservedTo
              THEN [obsAdmitted EXCEPT ![id] = @ + 1]
              ELSE obsAdmitted

\* the synchronous part left the request suspended at `await analyzeCandidate`
Suspends(r) == r.start /\ r.responses = <<>>

\* a request arrives at the handler with the limiter and runs to its first
\* await or to its response; observe says whether the admissions inside the
\* observed interval are counted
HandleMain(origin, query, t2, observe) ==
    LET id == ClientOf[origin]
        r == MainSync(origin, query, envKey, rateLimitMap, now, t2)
    IN  /\ out.ev = "none"
        /\ IF r.gate.allowed THEN t2 = now ELSE t2 >= now
        /\ IF Suspends(r) THEN BagCardinality(inflight) < MaxInFlight ELSE TRUE
        /\ CountCall(id, rateLimitMap,
                     [allowed |-> \A i \in DOMAIN r.responses : r.responses[i].status # 429,
                      map |-> r.map],
                     now, observe)
        /\ rateLimitMap' = r.map
        /\ now' = t2
        /\ inflight' = IF Suspends(r)
                       THEN Add(inflight,
                                Suspended("aggregate", "main", r.hdrs, r.model, r.key, 3, 0))
                       ELSE inflight
        /\ out' = [OutNone EXCEPT
                      !.ev = IF Suspends(r) THEN "admit" ELSE "respond",
                      !.h = "main", !.id = id, !.gate = r.gate, !.idx = winCalls'[id],
                      !.sent = Len(r.responses),
                      !.resp = IF r.responses = <<>> THEN OutNone.resp ELSE r.responses[1],
                      !.stage = r.stage, !.cls = r.cls,
                      !.gh = IF r.start THEN 3 ELSE 0,
                      !.model = r.model, !.key = r.key, !.q = query]
        /\ UNCHANGED <<maxReq, envKey, valInput, valResult, pipe>>

\* a request arrives at the variant handler
HandleVariant(query) ==
    LET r == VariantSync(query, envKey, rateLimitMap)
    IN  /\ out.ev = "none"
        /\ IF Suspends(r) THEN BagCardinality(inflight) < MaxInFlight ELSE TRUE
        /\ inflight' = IF Suspends(r)
                       THEN Add(inflight,
                                Suspended("aggregate", "variant", r.hdrs, r.model, r.key, 3, 0))
                       ELSE inflight
        /\ out' = [OutNone EXCEPT
                      !.ev = IF Suspends(r) THEN "admit" ELSE "respond",
                      !.h = "variant", !.gate = r.gate,
                      !.sent = Len(r.responses),
                      !.resp = IF r.responses = <<>> THEN OutNone.resp ELSE r.responses[1],
                      !.stage = r.stage, !.cls = r.cls,
                      !.gh = IF r.start THEN 3 ELSE 0,
                      !.model = r.model, !.key = r.key, !.q = query]
        /\ rateLimitMap' = r.map
        /\ UNCHANGED <<now, maxReq, envKey, winCalls, winAdmitted, obsAdmitted, valInput, valResult, pipe>>

\* analyzeCandidate after `await aggregateGitHubData`: on success it attaches the
\* job role and calls analyzeWithOpenAI, which posts to the scoring engine unless
\* the key is missing; on failure the exception reaches the handler's catch
AggregateDone(req, outcome) ==
    /\ out.ev = "none"
    /\ BagIn(req, inflight)
    /\ req.pc = "aggregate"
    /\ LET noKey == analyzeWithOpenAI(req.key, Reply("json", Sections, Undef))
           error == IF outcome = "ok" THEN noKey
                    ELSE Throw(outcome, "aggregation failed", "", <<>>)
           posts == outcome = "ok" /\ noKey.ok
       IN  /\ inflight' =
                 IF posts
                 THEN Add(Remove(inflight, req), [req EXCEPT !.pc = "score", !.ai = 1])
                 ELSE Remove(inflight, req)
           /\ out' =
                 IF posts
                 THEN [OutNone EXCEPT !.ev = "post", !.h = req.h, !.gh = req.gh, !.ai = 1,
                                      !.model = req.model, !.key = req.key,
                                      !.stage = "score"]
                 ELSE [OutNone EXCEPT !.ev = "respond", !.h = req.h, !.gh = req.gh,
                                      !.ai = req.ai, !.sent = 1, !.resp = CatchResponse(req.hdrs, error),
                                      !.stage = IF outcome = "ok" THEN "score" ELSE "aggregate",
                                      !.cls = error.cls]
    /\ UNCHANGED <<now, rateLimitMap, maxReq, envKey, winCalls, winAdmitted, obsAdmitted,
                   valInput, valResult, pipe>>

\* the scoring engine's reply (or the timeout) arrives: analyzeWithOpenAI
\* returns or throws, and the handler answers
ScoreDone(req, reply) ==
    /\ out.ev = "none"
    /\ BagIn(req, inflight)
    /\ req.pc = "score"
    /\ LET analysis == analyzeWithOpenAI(req.key, reply)
       IN  /\ inflight' = Remove(inflight, req)
           /\ out' = [OutNone EXCEPT
                         !.ev = "respond", !.h = req.h, !.gh = req.gh, !.ai = req.ai,
                         !.sent = 1,
                         !.resp = IF analysis.ok
                                  THEN SuccessResponse(req.hdrs, analysis.v)
                                  ELSE CatchResponse(req.hdrs, analysis),
                         !.stage = IF analysis.ok THEN "done" ELSE "score",
                         !.cls = IF analysis.ok THEN "" ELSE analysis.cls,
                         !.given = reply.conf,
                         !.upstream = ErrorReply(reply.kind, reply.message)]
    /\ UNCHANGED <<now, rateLimitMap, maxReq, envKey, winCalls, winAdmitted, obsAdmitted,
                   valInput, valResult, pipe>>

\* what the last step did has been seen: the response is on the wire, the call
\* is on its way
Flush ==
    /\ out.ev # "none"
    /\ out' = OutNone
    /\ UNCHANGED <<now, rateLimitMap, maxReq, envKey, inflight, winCalls, winAdmitted,
                   obsAdmitted, valInput, valResult, pipe>>

\* the requests of the handler specification come from one client
SpecOrigins == {o \in Origins : Truthy(o.forwarded) \/ Truthy(o.realIp)}

\* ... and carry one query of each kind the handlers tell apart
HandlerQueries ==
    {BaseQuery,
     [BaseQuery EXCEPT !.username = Str(<<"i","n","v","a","l","i","d","@","u","s","e","r">>)],
     [BaseQuery EXCEPT !.username = Undef],
     [BaseQuery EXCEPT !.job_title = Undef],
     [BaseQuery EXCEPT !.job_title = Str(Rep(<<"t">>, MaxJobTitleLen + 1))],
     [BaseQuery EXCEPT !.required_skills = Str(<<",">>)],
     [BaseQuery EXCEPT !.seniority = Str(<<"i","n","v","a","l","i","d">>)],
     [BaseQuery EXCEPT !.focus = Arr],
     [BaseQuery EXCEPT !.openai_model = Str(ModelNames.gpt4)],
     [BaseQuery EXCEPT !.openai_model = Str(<<"g","p","t","-","5">>)],
     [BaseQuery EXCEPT !.openai_api_key = Str(<<"s","k","-","q">>)]}

\* the variant handler is sent the queries it treats differently
VariantQueries ==
    {BaseQuery,
     [BaseQuery EXCEPT !.username = Str(<<"i","n","v","a","l","i","d","@","u","s","e","r">>)],
     [BaseQuery EXCEPT !.username = Undef],
     [BaseQuery EXCEPT !.job_title = Undef],
     [BaseQuery EXCEPT !.seniority = Str(<<"i","n","v","a","l","i","d">>)],
     [BaseQuery EXCEPT !.focus = Arr],
     [BaseQuery EXCEPT !.openai_model = Str(<<"g","p","t","-","5">>)],
     [BaseQuery EXCEPT !.openai_api_key = Str(<<"s","k","-","q">>)]}

Next ==
    \/ \E t \in TimePoints : Tick(t)
    \/ \E o \in SpecOrigins, q \in HandlerQueries, t2 \in TimePoints :
          HandleMain(o, q, t2, FALSE)
    \/ \E q \in VariantQueries : HandleVariant(q)
    \/ \E req \in BagToSet(inflight), outcome \in {"ok", "CustomError", "Error"} :
          AggregateDone(req, outcome)
    \/ \E req \in BagToSet(inflight), reply \in Replies : ScoreDone(req, reply)
    \/ Flush

Spec == Init /\ [][Next]_vars

(***************************************************************************)
(* The limiter on its own: checkRateLimit called directly, with a          *)
(* maxRequests chosen once and the default window, for any identifier      *)
(***************************************************************************)
MaxK == 3

InitLimiter ==
    /\ InitCommon
    /\ envKey = ""
    /\ maxReq \in (1..MaxK) \cup {HandlerMaxRequests}
    /\ valInput = NoInput
    /\ valResult = NoResult

Call(id) ==
    LET result == checkRateLimit(rateLimitMap, id, maxReq, HandlerWindowMs, now)
    IN  /\ out.ev = "none"
        /\ CountCall(id, rateLimitMap, result, now, FALSE)
        /\ rateLimitMap' = result.map
        /\ out' = [OutNone EXCEPT
                      !.ev = "call", !.id = id, !.idx = winCalls'[id],
                      !.gate = [called |-> TRUE, allowed |-> result.allowed,
                                remaining |-> result.remaining,
                                resetAt |-> result.resetAt]]
        /\ UNCHANGED <<now, maxReq, envKey, inflight, valInput, valResult, pipe>>

NextLimiter ==
    \/ \E t \in TimePoints : Tick(t)
    \/ \E id \in ClientIds : Call(id)
    \/ Flush

SpecLimiter == InitLimiter /\ [][NextLimiter]_vars

\* The limiter with a clock that keeps advancing while there is a later time
\* point, and clients that keep calling: each of the three steps is taken again
\* and again as long as it is possible again and again
SpecLockout ==
    /\ SpecLimiter
    /\ SF_vars(\E t \in TimePoints : Tick(t))
    /\ \A id \in ClientIds : SF_vars(Call(id))
    /\ WF_vars(Flush)

(***************************************************************************)
(* The handler with the limiter under observation: the requests admitted   *)
(* in the interval [ObservedFrom, ObservedTo) are counted.  The requests   *)
(* sent are ones the handler answers without suspending.                   *)
(***************************************************************************)
NextWindow ==
    \/ \E t \in TimePoints : Tick(t)
    \/ \E o \in SpecOrigins, t2 \in TimePoints,
            q \in {[BaseQuery EXCEPT !.username = Undef],
                   [BaseQuery EXCEPT !.job_title = Undef]} :
          HandleMain(o, q, t2, TRUE)
    \/ Flush

SpecWindow == Init /\ [][NextWindow]_vars

(***************************************************************************)
(* The validators on their own: each is applied to an input drawn at the   *)
(* start, and the handler with the limiter is run on the same input from a *)
(* fresh state, with the API key configured                                *)
(***************************************************************************)
\* the k-th of n entries: a letter repeated len times, the last entry one
\* character longer than MaxSkillLen when long
SkillEntry(k, n, len, long) ==
    Rep(<<LowerChars[((k - 1) % 26) + 1]>>,
        IF long /\ k = n THEN MaxSkillLen + 1 ELSE len)

\* a skills string of n entries: each entry between pad spaces and followed by
\* a comma and by gaps entries that are a single space
SkillsText(n, len, long, pad, gaps) ==
    LET lenOf(k) == IF long /\ k = n THEN MaxSkillLen + 1 ELSE len
        width(k) == 2 * pad + lenOf(k) + 1 + 2 * gaps
        total == IF n = 0 THEN 0 ELSE width(1) * (n - 1) + width(n)
        char(i) ==
            LET k == IF i > width(1) * (n - 1) THEN n ELSE ((i - 1) \div width(1)) + 1
                o == i - width(1) * (k - 1)
            IN  IF o <= pad THEN " "
                ELSE IF o <= pad + lenOf(k) THEN LowerChars[((k - 1) % 26) + 1]
                ELSE IF o <= 2 * pad + lenOf(k) THEN " "
                ELSE IF (o - (2 * pad + lenOf(k))) % 2 = 1 THEN ","
                ELSE " "
    IN  AsTuple([i \in 1..total |-> char(i)])

SkillsInputs ==
    {[fn |-> "validateSkills",
      s |-> Str(SkillsText(n, len, long, pad, gaps)),
      entries |-> AsTuple([k \in 1..n |-> SkillEntry(k, n, len, long)])] :
        n \in {0, 1, 2, MaxSkills - 1, MaxSkills, MaxSkills + 1}, len \in {1, MaxSkillLen}, long \in BOOLEAN,
        pad \in 0..1, gaps \in 0..1}

\* Transport data of a request.  x-forwarded-for is absent, or empty, or a first
\* token between pad spaces followed by nothing, by a comma or by a second
\* address; x-real-ip and the peer address are absent, empty or an address.  The
\* request carries one of three queries and finds its identifier with used
\* requests already counted in the current window.
IdentifierInputs ==
    {[fn |-> "getClientIdentifier",
      req |-> Origin(f.header, realIp, remoteAddress),
      token |-> f.token, q |-> q, used |-> used] :
        f \in {[header |-> Undef, token |-> <<>>]}
              \cup {[header |-> Str(Rep(<<" ">>, pad) \o token \o Rep(<<" ">>, pad) \o rest),
                     token |-> token] :
                        token \in {<<>>, <<"7">>, <<"1","0",".","0",".","0",".","1">>},
                        pad \in 0..1,
                        rest \in {<<>>, <<",">>, <<","," ","1","0",".","9",".","9",".","9">>}},
        realIp \in {Undef, Str(<<>>), Str(<<"1","0",".","0",".","0",".","2">>)},
        remoteAddress \in {Undef, Str(<<>>), Str(<<"1","0",".","9",".","9",".","9">>)},
        q \in {BaseQuery,
               [BaseQuery EXCEPT !.username = Str(<<"t","e","s","t","1">>)],
               [BaseQuery EXCEPT !.username = Str(<<"t","e","s","t","1">>),
                                 !.focus = Undef]},
        used \in {0, HandlerMaxRequests - 1, HandlerMaxRequests}}

ValidatorInputs ==
    SkillsInputs
    \cup IdentifierInputs
    \cup {[fn |-> "validateUsername", q |-> q] : q \in UsernameQueries}
    \cup {[fn |-> "parseJobRole", q |-> q] : q \in JobRoleQueries}

InitValidators ==
    /\ InitCommon
    /\ envKey = "env"
    /\ maxReq = HandlerMaxRequests
    /\ valInput \in ValidatorInputs
    /\ valResult = NoResult

\* what the handler with the limiter does with the query, from a fresh state
FreshRun(q) ==
    MainSyncWith(ClientOf[CHOOSE o \in SpecOrigins : TRUE], q, envKey, << >>, now, now,
                 validateUsername(q.username), parseJobRole(q))

\* the rate-limit map in which the identifier id has used requests counted in
\* the window that is open
\* what the handler with the limiter does with the query q of the request req,
\* the map being m
RunFrom(req, q, m) ==
    MainSyncWith(getClientIdentifier(req), q, envKey, m, now, now,
                 validateUsername(q.username), parseJobRole(q))

ValidatorFrame ==
    UNCHANGED <<now, rateLimitMap, maxReq, envKey, inflight, out, winCalls,
                winAdmitted, obsAdmitted, valInput, pipe>>

ApplyValidateSkills ==
    /\ valInput.fn = "validateSkills"
    /\ valResult = NoResult
    /\ valResult' = [fn |-> "validateSkills",
                     r |-> validateSkills(valInput.s, "required_skills", TRUE)]
    /\ ValidatorFrame

ApplyValidateUsername ==
    /\ valInput.fn = "validateUsername"
    /\ valResult = NoResult
    /\ valResult' = [fn |-> "validateUsername",
                     r |-> validateUsername(valInput.q.username),
                     run |-> FreshRun(valInput.q)]
    /\ ValidatorFrame

ApplyParseJobRole ==
    /\ valInput.fn = "parseJobRole"
    /\ valResult = NoResult
    /\ valResult' = [fn |-> "parseJobRole",
                     r |-> parseJobRole(valInput.q),
                     run |-> FreshRun(valInput.q)]
    /\ ValidatorFrame

\* the identifier of the request is derived; the handler is run on the request
\* and on the same request with the query of Test 1
ApplyGetClientIdentifier ==
    /\ valInput.fn = "getClientIdentifier"
    /\ valResult = NoResult
    /\ LET id == getClientIdentifier(valInput.req)
           m == IF valInput.used = 0 THEN << >>
                ELSE (id :> [count |-> valInput.used, resetAt |-> now + HandlerWindowMs])
       IN  valResult' = [fn |-> "getClientIdentifier",
                         id |-> id,
                         run |-> RunFrom(valInput.req, valInput.q, m),
                         base |-> RunFrom(valInput.req, BaseQuery, m)]
    /\ ValidatorFrame

NextValidators ==
    \/ ApplyValidateSkills
    \/ ApplyGetClientIdentifier
    \/ ApplyValidateUsername
    \/ ApplyParseJobRole

SpecValidators == InitValidators /\ [][NextValidators]_vars

(***************************************************************************)
(* The derived signals on their own: each function is applied to an input  *)
(* drawn at the start                                                      *)
(***************************************************************************)
MaxCommits == 620
MaxAgeYears == 3
MaxRepos == 10

\* a repository whose description has the given length, null standing for
\* the length -1
RepoOfLength(len) ==
    Repo(IF len < 0 THEN Null ELSE Str(Rep(<<"d">>, len)))

\* n repositories: the first over30 with a description of 31 characters, the next
\* ones, up to over20 in all, with descriptions of 21 and 30 characters, the rest
\* with none, an empty one or one of 20 characters
Repositories(n, over20, over30) ==
    AsTuple([i \in 1..n |->
                IF i <= over30 THEN RepoOfLength(31)
                ELSE IF i <= over20 THEN RepoOfLength(IF i % 2 = 0 THEN 21 ELSE 30)
                ELSE RepoOfLength(CASE i % 3 = 0 -> -1 [] i % 3 = 1 -> 0 [] OTHER -> 20)])

MetricInputs ==
    {[fn |-> "commitMetrics", totalCommits |-> c, accountAgeYears |-> a] :
        c \in 0..MaxCommits, a \in 0..MaxAgeYears}
    \cup {[fn |-> "repositorySignals", n |-> n, over20 |-> over20, over30 |-> over30,
           repositories |-> Repositories(n, over20, over30),
           contributedTo |-> c] :
              n \in 0..MaxRepos, over20 \in 0..MaxRepos, over30 \in 0..MaxRepos,
              c \in {0, 3}}

InitMetrics ==
    /\ InitCommon
    /\ envKey = "env"
    /\ maxReq = HandlerMaxRequests
    /\ valInput \in {i \in MetricInputs :
                        i.fn = "repositorySignals" => i.over30 <= i.over20 /\ i.over20 <= i.n}
    /\ valResult = NoResult

ApplyCommitMetrics ==
    /\ valInput.fn = "commitMetrics"
    /\ valResult = NoResult
    /\ valResult' =
          [fn |-> "commitMetrics",
           commit_frequency |->
               calculateCommitFrequency(valInput.totalCommits, valInput.accountAgeYears),
           commit_consistency |->
               calculateCommitConsistency(valInput.totalCommits, valInput.accountAgeYears)]
    /\ ValidatorFrame

ApplyRepositorySignals ==
    /\ valInput.fn = "repositorySignals"
    /\ valResult = NoResult
    /\ valResult' =
          [fn |-> "repositorySignals",
           readme_quality |-> assessReadmeQuality(valInput.repositories),
           documentation_signal |-> assessDocumentationSignal(valInput.repositories),
           collaboration_signals |->
               calculateCollaborationSignals(valInput.repositories, valInput.contributedTo)]
    /\ ValidatorFrame

NextMetrics ==
    \/ ApplyCommitMetrics
    \/ ApplyRepositorySignals

SpecMetrics == InitMetrics /\ [][NextMetrics]_vars

(***************************************************************************)
(* One request at a time through the handler with the limiter, followed    *)
(* fetch by fetch: aggregateGitHubData awaits Promise.all of the three     *)
(* fetches, analyzeCandidate awaits aggregateGitHubData and then           *)
(* analyzeWithOpenAI, the handler awaits analyzeCandidate                  *)
(***************************************************************************)
\* what fetchStats settles with: the statistics, or a rejection
Stats(totalCommits, contributedTo) ==
    [totalCommits |-> totalCommits, totalPRs |-> 5, totalPRsMerged |-> 4,
     totalReviews |-> 2, totalIssues |-> 7, contributedTo |-> contributedTo]

StatsOutcomes ==
    {Ok(Stats(240, 3)), Ok(Stats(0, 0)),
     Throw("CustomError", "Could not fetch user.", "", <<>>),
     Throw("Error", "socket hang up", "", <<>>)}

\* what fetchTopLanguages settles with: the languages by size, or a rejection
Lang(name, size) == [name |-> name, size |-> size]

TopLangsOutcomes ==
    {Ok(<<>>),
     Ok(<<Lang("HTML", 100), Lang("JavaScript", 300), Lang("CSS", 100), Lang("Go", 50),
          Lang("Shell", 20), Lang("C", 30)>>),
     Throw("CustomError", "Could not fetch user.", "", <<>>)}

\* what retryer(profileFetcher, ...) settles with: accounts created two years
\* before the clock starts, a year less a millisecond before, and after every
\* time point; body errors; a rejection once the retries are spent
RetryerOutcomes ==
    {Ok([errors |-> TRUE]),
     ProfileData(8, 20, Date(-730, 0)),
     ProfileData(1, 0, Date(-365, 1)),
     ProfileData(2, 1, Date(1, 0)),
     Throw("CustomError", "Downtime due to GitHub API rate limiting", "", <<>>)}

\* Promise.all over promises of which at most one has rejected so far
PromiseAll(ps) ==
    LET rejected == {i \in DOMAIN ps : ps[i].settled /\ ~ps[i].r.ok}
    IN  IF rejected # {}
        THEN [state |-> "rejected", reason |-> ps[CHOOSE i \in rejected : TRUE].r]
        ELSE IF \A i \in DOMAIN ps : ps[i].settled
        THEN [state |-> "resolved", reason |-> Ok(Null)]
        ELSE [state |-> "pending", reason |-> Ok(Null)]

NoPayload == [job_role |-> Null]

\* the catch of analyzeCandidate going on with whatever has been fetched
analyzeCandidate_ContinuesOnFailure(r) ==
    LET all == PromiseAll(<<r.stats, r.topLangs, r.profile>>)
    IN  IF all.state = "pending" THEN r
        ELSE LET githubData ==
                     IF all.state = "rejected" THEN NoPayload
                     ELSE aggregateGitHubData(r.username, r.stats.r.v, r.topLangs.r.v,
                                              r.profile.r.v)
                 keyGuard == analyzeWithOpenAI(r.key, Reply("json", Sections, Undef))
             IN  IF ~keyGuard.ok
                 THEN [r EXCEPT !.pc = "done", !.resp = CatchResponse(r.hdrs, keyGuard)]
                 ELSE [r EXCEPT !.pc = "score",
                                !.payload = [githubData EXCEPT !.job_role = r.jobRole],
                                !.posts = @ + 1]

\* the request r after one of its fetches has settled: aggregateGitHubData and
\* analyzeCandidate go on when Promise.all settles.  A rejection passes through
\* both catch blocks to the handler's, which answers; otherwise the payload is
\* built, the job role is attached and analyzeWithOpenAI posts it unless the
\* key is missing
analyzeCandidate(r) ==
    LET all == PromiseAll(<<r.stats, r.topLangs, r.profile>>)
    IN  IF all.state = "pending" THEN r
        ELSE IF all.state = "rejected"
        THEN [r EXCEPT !.pc = "done", !.resp = CatchResponse(r.hdrs, all.reason)]
        ELSE LET githubData ==
                     aggregateGitHubData(r.username, r.stats.r.v, r.topLangs.r.v,
                                         r.profile.r.v)
                 keyGuard == analyzeWithOpenAI(r.key, Reply("json", Sections, Undef))
             IN  IF ~keyGuard.ok
                 THEN [r EXCEPT !.pc = "done", !.resp = CatchResponse(r.hdrs, keyGuard)]
                 ELSE [r EXCEPT !.pc = "score",
                                !.payload = [githubData EXCEPT !.job_role = r.jobRole],
                                !.posts = @ + 1]

PipelineFrame ==
    UNCHANGED <<now, maxReq, envKey, inflight, out, winCalls, winAdmitted,
                obsAdmitted, valInput, valResult>>

\* a request arrives while none is being followed
Arrive(origin, query) ==
    LET r == MainSync(origin, query, envKey, rateLimitMap, now, now)
    IN  /\ pipe.pc = "idle"
        /\ out.ev = "none"
        /\ rateLimitMap' = r.map
        /\ pipe' = IF Suspends(r)
                  THEN [NoRun EXCEPT !.pc = "aggregate", !.issued = TRUE, !.hdrs = r.hdrs,
                                     !.model = r.model, !.key = r.key,
                                     !.username = UsernameResult[query].v,
                                     !.jobRole = JobRoleResult[query].v]
                  ELSE [NoRun EXCEPT !.pc = "done", !.resp = r.responses[1]]
        /\ PipelineFrame

\* one of the three fetches of the request settles; res is what retryer
\* settled with when the fetch is the profile's
Settle(which, outcome, res) ==
    /\ pipe.issued
    /\ ~pipe[which].settled
    /\ LET r == [pipe EXCEPT ![which] = Settled(outcome), !.res = res]
       IN  pipe' = IF pipe.pc = "aggregate" THEN analyzeCandidate(r) ELSE r
    /\ UNCHANGED rateLimitMap
    /\ PipelineFrame

FetchStatsSettles == \E outcome \in StatsOutcomes : Settle("stats", outcome, pipe.res)

FetchTopLanguagesSettles == \E outcome \in TopLangsOutcomes : Settle("topLangs", outcome, pipe.res)

FetchUserProfileSettles ==
    \E res \in RetryerOutcomes :
        Settle("profile", fetchUserProfile(res, Date(0, now)), Settled(res))

\* the scoring engine's reply, or the timeout of the post, arrives
ScoreSettles ==
    \E reply \in Replies :
        /\ pipe.pc = "score"
        /\ LET analysis == analyzeWithOpenAI(pipe.key, reply)
           IN  pipe' = [pipe EXCEPT !.pc = "done",
                                  !.resp = IF analysis.ok
                                           THEN SuccessResponse(pipe.hdrs, analysis.v)
                                           ELSE CatchResponse(pipe.hdrs, analysis)]
        /\ UNCHANGED rateLimitMap
        /\ PipelineFrame

\* the response is on the wire; the next request will be followed
Answered ==
    /\ pipe.pc = "done"
    /\ pipe' = NoRun
    /\ UNCHANGED rateLimitMap
    /\ PipelineFrame

NextPipeline ==
    \/ \E t \in TimePoints : Tick(t)
    \/ \E q \in {BaseQuery,
                 [BaseQuery EXCEPT !.username = Undef],
                 [BaseQuery EXCEPT !.seniority = Str(<<"i","n","v","a","l","i","d">>)]} :
          Arrive(CHOOSE o \in SpecOrigins : TRUE, q)
    \/ FetchStatsSettles
    \/ FetchTopLanguagesSettles
    \/ FetchUserProfileSettles
    \/ ScoreSettles
    \/ Answered

SpecPipeline == Init /\ [][NextPipeline]_vars

\* The timer of the post to the scoring engine fires after 60 s whatever the
\* engine does, and the handler, once resumed, runs to its response.  Nothing
\* makes a fetch of the data source settle: the requests are sent without a
\* timeout.
SpecPipelineLive ==
    SpecPipeline /\ WF_vars(ScoreSettles) /\ WF_vars(Answered)

(***************************************************************************)
(* Properties                                                              *)
(***************************************************************************)
Min(a, b) == IF a <= b THEN a ELSE b

Responded == out.ev = "respond"

RateLimitTriplet(hdrs) == hdrs.limit /\ hdrs.remaining /\ hdrs.reset

\* C1: in the handler with the limiter, a request stopped by a validation error
\* of the username or of a job-role parameter is answered with status 400.
C1_ValidationFailureAnswers400 ==
    (/\ Responded
     /\ out.h = "main"
     /\ out.stage \in {"username", "jobRole"}
     /\ out.cls \in {"CustomError", "MissingParamError"})
    => out.resp.status = 400

\* C2: a call of checkRateLimit is allowed exactly when it is among the first
\* maxRequests calls for its identifier since the record was created or rolled
\* over, and a denied call returns remaining = 0.
C2_FirstKCallsAllowed ==
    out.ev = "call" =>
        /\ out.gate.allowed <=> out.idx <= maxReq
        /\ ~out.gate.allowed => out.gate.remaining = 0

\* with maxRequests = 10 the 11th call in the window has been denied
C2_Witness ==
    /\ out.ev = "call"
    /\ maxReq = 10
    /\ out.idx = 11
    /\ ~out.gate.allowed
    /\ out.gate.remaining = 0

\* C3: whatever the interleaving of the handlers, of the requests of one client
\* that passed the gate in the current window exactly min(N, 10) were admitted.
C3_AdmitsMinOfNAndK ==
    \A c \in ClientIds : winAdmitted[c] = Min(winCalls[c], HandlerMaxRequests)

\* a request is denied while two admitted ones are suspended at an await
C3_Witness ==
    /\ Responded
    /\ out.h = "main"
    /\ out.resp.status = 429
    /\ BagCardinality(inflight) >= 2
    /\ \A req \in BagToSet(inflight) : req.h = "main"
    /\ winCalls[out.id] > HandlerMaxRequests

\* C4: every response, of either handler, carries the three headers
\* X-RateLimit-Limit, X-RateLimit-Remaining and X-RateLimit-Reset.
C4_TripletOnEveryResponse ==
    Responded => RateLimitTriplet(out.resp.hdrs)

\* C5: every response of the handler with the limiter has exactly one cache
\* header set applied: the success set on 200, the error set on 400, 429, 500.
C5_OneCacheHeaderSet ==
    (Responded /\ out.h = "main") =>
        /\ out.resp.status = 200 => out.resp.hdrs.cache = {"success"}
        /\ out.resp.status \in {400, 429, 500} => out.resp.hdrs.cache = {"error"}

\* C6: a 429 response has X-RateLimit-Remaining set to 0 and a retryAfter of at
\* most 60 seconds.
C6_RateLimitedResponse ==
    (Responded /\ out.resp.status = 429) =>
        /\ out.resp.hdrs.remaining
        /\ out.resp.remainingValue = 0
        /\ out.resp.body = "rateLimited"
        /\ out.resp.retryAfter <= 60

\* a request denied in the millisecond its window opened: retryAfter is 60
C6_Witness ==
    /\ Responded
    /\ out.resp.status = 429
    /\ out.resp.retryAfter = 60

\* C7 as stated: no client has more than 10 requests admitted in the 60 seconds
\* from ObservedFrom.
C7_AtMost10InAnyMinute ==
    \A c \in ClientIds : obsAdmitted[c] <= HandlerMaxRequests

\* C7 amended: no client has more than 10 requests admitted in one window of the
\* limiter, and no more than 19 in the 60 seconds from ObservedFrom.
C7_AtMost10PerWindow ==
    \A c \in ClientIds :
        /\ winAdmitted[c] <= HandlerMaxRequests
        /\ obsAdmitted[c] <= 2 * HandlerMaxRequests - 1

\* 19 requests of one client admitted within the observed 60 seconds
C7_Witness ==
    \E c \in ClientIds : obsAdmitted[c] = 2 * HandlerMaxRequests - 1

\* C8: a request stopped at the gate, at the validation of the username, at the
\* check of the API key or at the parsing of the job role has made no call to
\* the data source and none to the scoring engine.
C8_NoUpstreamCallBeforeValidation ==
    (Responded /\ out.stage \in {"gate", "username", "apiKey", "jobRole"})
    => (out.gh = 0 /\ out.ai = 0)

\* a request rejected by the job-role parsing with 400
C8_Witness ==
    /\ Responded
    /\ out.h = "main"
    /\ out.stage = "jobRole"
    /\ out.resp.status = 400
    /\ out.gh = 0

\* C9: a request is answered once, with 200, 400, 429 or 500; a 200 follows a
\* successful aggregation and a successful scoring call and its body has the
\* four sections.
C9_OneResponseAndCompleteSuccess ==
    Responded =>
        /\ out.sent = 1
        /\ out.resp.status \in {200, 400, 429, 500}
        /\ out.resp.status = 200 =>
              /\ out.stage = "done"
              /\ out.gh = 3
              /\ out.ai = 1
              /\ out.resp.body = "analysis"
              /\ out.resp.sections = Sections

\* a 200 with the four sections
C9_Witness ==
    /\ Responded
    /\ out.resp.status = 200
    /\ out.resp.sections = Sections
    /\ out.ai = 1

\* C10: the confidence_percentage of an analysis sent to the client is, when
\* present, a number between 0 and 100.
C10_ConfidenceInRange ==
    (Responded /\ out.resp.status = 200 /\ out.resp.conf.t # "undef") =>
        /\ out.resp.conf.t = "num"
        /\ out.resp.conf.n >= 0
        /\ out.resp.conf.n <= 100

\* C11: the API key a handler hands to analyzeCandidate, and the one posted to
\* the scoring engine, is the value of OPENAI_API_KEY and never the query's.
C11_KeyOnlyFromEnvironment ==
    out.ev \in {"admit", "post"} => out.key = envKey

\* the part of a response the client reads
ClientView(resp) == <<resp.status, resp.body, resp.msg, resp.list>>

\* C12: the status and body of an error response are the same whatever the
\* error.message of the payload the scoring engine answered with.
C12_ErrorBodyIndependentOfUpstreamPayload ==
    (Responded /\ out.stage = "score" /\ out.upstream.kind \in HttpErrorKinds) =>
        \A m \in UpstreamMessages :
            ClientView(CatchResponse(NoHeaders,
                           analyzeWithOpenAI("env", ErrorReply(out.upstream.kind, m))))
                = ClientView(out.resp)

\* a query parameter that is absent or the empty string
AbsentOrEmpty(v) == v = Undef \/ v = Str(<<>>)

\* the handler answered the run with one response of the given status
AnsweredWith(run, status) ==
    /\ ~run.start
    /\ Len(run.responses) = 1
    /\ run.responses[1].status = status

\* C13: when one of job_title, required_skills, seniority, focus is absent or
\* empty, parseJobRole throws MissingParamError whatever the other three are,
\* and the handler answers 400 with a message naming the four fields.
C13_GroupCheckFirst ==
    (/\ valResult.fn = "parseJobRole"
     /\ \/ AbsentOrEmpty(valInput.q.job_title)
        \/ AbsentOrEmpty(valInput.q.required_skills)
        \/ AbsentOrEmpty(valInput.q.seniority)
        \/ AbsentOrEmpty(valInput.q.focus))
    => /\ ~valResult.r.ok
       /\ valResult.r.cls = "MissingParamError"
       /\ AnsweredWith(valResult.run, 400)
       /\ valResult.run.responses[1].list = GroupFields

\* seniority absent, with an invalid focus and an over-long job_title
C13_Witness ==
    /\ valResult.fn = "parseJobRole"
    /\ valInput.q.seniority = Undef
    /\ valInput.q.focus = Str(<<"b","a","d">>)
    /\ valInput.q.job_title = Str(Rep(<<"t">>, MaxJobTitleLen + 1))
    /\ AnsweredWith(valResult.run, 400)
    /\ valResult.run.responses[1].list = GroupFields

\* C14: validateSkills on required_skills accepts exactly the strings whose
\* non-empty trimmed entries number 1 to 50 and are at most 50 characters long
\* each, and returns these entries in their order.
C14_ValidateSkillsContract ==
    valResult.fn = "validateSkills" =>
        LET entries == valInput.entries
        IN  /\ valResult.r.ok <=>
                  /\ Len(entries) >= 1
                  /\ Len(entries) <= 50
                  /\ \A i \in DOMAIN entries : Len(entries[i]) <= 50
            /\ valResult.r.ok => valResult.r.v = entries

\* 50 entries of 50 characters, padded and with blank entries between them
C14_Witness ==
    /\ valResult.fn = "validateSkills"
    /\ valResult.r.ok
    /\ Len(valResult.r.v) = 50
    /\ \A i \in DOMAIN valResult.r.v : Len(valResult.r.v[i]) = 50
    /\ Len(valInput.s.s) > 50 * 51

\* the GitHub username grammar: alphanumeric segments separated by single
\* hyphens, no leading or trailing hyphen, 1 to 39 characters
IsLogin(s) ==
    /\ Len(s) >= 1
    /\ Len(s) <= 39
    /\ \A i \in DOMAIN s : IsAlnum(s[i]) \/ s[i] = "-"
    /\ s[1] # "-"
    /\ s[Len(s)] # "-"
    /\ \A i \in 1..(Len(s) - 1) : ~(s[i] = "-" /\ s[i + 1] = "-")

\* t is s without its leading and trailing spaces
IsTrimOf(t, s) ==
    /\ t # <<>> => (t[1] # " " /\ t[Len(t)] # " ")
    /\ \E i \in 1..(Len(s) + 1) :
          /\ i + Len(t) - 1 <= Len(s)
          /\ SubSeq(s, i, i + Len(t) - 1) = t
          /\ \A j \in DOMAIN s : (j < i \/ j > i + Len(t) - 1) => s[j] = " "

\* C15: validateUsername accepts exactly the strings whose trimmed value follows
\* the grammar, returns that trimmed value unchanged, and the handler answers
\* 400 to every other username.
C15_ValidateUsernameContract ==
    valResult.fn = "validateUsername" =>
        LET username == valInput.q.username
        IN  /\ valResult.r.ok <=> (IsString(username) /\ IsLogin(Trim(username.s)))
            /\ valResult.r.ok =>
                  /\ IsTrimOf(valResult.r.v, username.s)
                  /\ valResult.run.start
            /\ ~valResult.r.ok => AnsweredWith(valResult.run, 400)

\* " Octo-Cat " is accepted as "Octo-Cat"
C15_Witness ==
    /\ valResult.fn = "validateUsername"
    /\ valInput.q.username = Str(<<" ","O","c","t","o","-","C","a","t"," ">>)
    /\ valResult.r.ok
    /\ valResult.r.v = <<"O","c","t","o","-","C","a","t">>
    /\ valResult.run.start

\* the value, whatever its case, is a member of the set
MemberIgnoringCase(v, set) == IsString(v) /\ ToLowerCase(v.s) \in Range(set)

\* C16: a seniority or focus outside its set is rejected with a message listing
\* the valid set, and a JobRole that parseJobRole returns has both fields in
\* their sets, in lower case.
C16_EnumerationsListedOnReject ==
    (/\ valResult.fn = "parseJobRole"
     /\ ~AbsentOrEmpty(valInput.q.job_title)
     /\ ~AbsentOrEmpty(valInput.q.required_skills)
     /\ ~AbsentOrEmpty(valInput.q.seniority)
     /\ ~AbsentOrEmpty(valInput.q.focus)
     /\ validateStringInput(valInput.q.job_title, "job_title", MaxJobTitleLen).ok
     /\ validateSkills(valInput.q.required_skills, "required_skills", TRUE).ok)
    => LET q == valInput.q
           r == valResult.r
       IN  /\ r.ok <=> /\ MemberIgnoringCase(q.seniority, validSeniority)
                       /\ MemberIgnoringCase(q.focus, validFocus)
           /\ r.ok => /\ r.v.seniority \in Range(validSeniority)
                      /\ r.v.focus \in Range(validFocus)
           /\ ~MemberIgnoringCase(q.seniority, validSeniority) =>
                 valResult.run.responses[1].list = JoinComma(validSeniority)
           /\ (/\ MemberIgnoringCase(q.seniority, validSeniority)
               /\ ~MemberIgnoringCase(q.focus, validFocus)) =>
                 valResult.run.responses[1].list = JoinComma(validFocus)

\* C17: the model handed to analyzeCandidate and posted to the scoring engine
\* is one of gpt-4o, gpt-4-turbo, gpt-4, gpt-3.5-turbo.
C17_ModelAlwaysWhitelisted ==
    out.ev \in {"admit", "post"} => out.model \in Range(validModels)

\* C18: a call of checkRateLimit for a known identifier rolls the window over
\* exactly when now > resetAt: it then leaves count = 1 and resetAt = now +
\* windowMs and is allowed with remaining = maxRequests - 1; otherwise resetAt
\* stays and the call is allowed exactly when count < maxRequests.
C18_RolloverExactlyAfterReset ==
    [][\A id \in ClientIds :
          (out'.ev = "call" /\ out'.id = id /\ id \in DOMAIN rateLimitMap) =>
              IF now > rateLimitMap[id].resetAt
              THEN /\ rateLimitMap'[id] = [count |-> 1, resetAt |-> now + HandlerWindowMs]
                   /\ out'.gate.allowed
                   /\ out'.gate.remaining = maxReq - 1
                   /\ out'.gate.resetAt = now + HandlerWindowMs
              ELSE /\ rateLimitMap'[id].resetAt = rateLimitMap[id].resetAt
                   /\ out'.gate.allowed <=> rateLimitMap[id].count < maxReq]_vars

\* a call at now = resetAt is denied: the window of the 60 seconds before is
\* still the current one
C18_Witness ==
    /\ out.ev = "call"
    /\ now = HandlerWindowMs
    /\ out.gate.resetAt = now
    /\ ~out.gate.allowed
    /\ rateLimitMap[out.id].count = maxReq

\* C19: a call of checkRateLimit leaves the records of the other identifiers
\* unchanged; denied, it leaves the whole map unchanged; allowed inside the
\* current window, it adds one to the count of its record and keeps resetAt.
C19_FrameOfCheckRateLimit ==
    [][\A id \in ClientIds :
          (out'.ev = "call" /\ out'.id = id) =>
              /\ DOMAIN rateLimitMap' = DOMAIN rateLimitMap \cup {id}
              /\ \A other \in DOMAIN rateLimitMap \ {id} :
                    rateLimitMap'[other] = rateLimitMap[other]
              /\ ~out'.gate.allowed => rateLimitMap' = rateLimitMap
              /\ (/\ out'.gate.allowed
                  /\ id \in DOMAIN rateLimitMap
                  /\ now <= rateLimitMap[id].resetAt) =>
                    rateLimitMap'[id] = [count |-> rateLimitMap[id].count + 1,
                                         resetAt |-> rateLimitMap[id].resetAt]]_vars

\* a call is denied while the other identifier has a record of its own
C19_Witness ==
    /\ out.ev = "call"
    /\ ~out.gate.allowed
    /\ DOMAIN rateLimitMap = ClientIds
    /\ \E other \in ClientIds \ {out.id} : rateLimitMap[other].count < maxReq

\* C20: a request whose scoring call failed made one call to the engine and is
\* answered 500 with the message of its class: 401, 429, unparseable body, or
\* any other failure with the underlying message.
C20_ScoringFailuresClassified ==
    (Responded /\ out.stage = "score" /\ out.upstream.kind # "") =>
        /\ out.ai = 1
        /\ out.resp.status = 500
        /\ out.upstream.kind = "http401" =>
              (out.resp.msg = "Invalid OpenAI API key" /\ out.resp.list = <<>>)
        /\ out.upstream.kind = "http429" =>
              (out.resp.msg = "OpenAI API rate limit exceeded" /\ out.resp.list = <<>>)
        /\ out.upstream.kind = "badJson" =>
              out.resp.msg = "Invalid JSON response from OpenAI"
        /\ out.upstream.kind = "httpOther" =>
              /\ out.resp.msg = "OpenAI API error: "
              /\ out.resp.list = IF out.upstream.message # <<>>
                                 THEN out.upstream.message
                                 ELSE <<"Request failed with status code">>
        /\ out.upstream.kind = "timeout" =>
              /\ out.resp.msg = "OpenAI API error: "
              /\ out.resp.list = <<"timeout of 60000ms exceeded">>

\* the engine answered 429 and the client is answered 500
C20_Witness ==
    /\ Responded
    /\ out.stage = "score"
    /\ out.upstream.kind = "http429"
    /\ out.resp.status = 500
    /\ out.resp.msg = "OpenAI API rate limit exceeded"
    /\ out.ai = 1


\* C21: the payload is posted to the scoring engine at most once for a request,
\* and only when the three fetches have all resolved and the payload posted is
\* the aggregate of what they resolved to with the job role of the request
\* attached; a request one of whose fetches was rejected is never posted.
C21_ScoringAfterAggregation ==
    /\ pipe.posts <= 1
    /\ pipe.posts = 1 =>
          /\ \A f \in {"stats", "topLangs", "profile"} : pipe[f].settled /\ pipe[f].r.ok
          /\ pipe.payload.job_role = pipe.jobRole
          /\ pipe.payload.job_role # Null
          /\ pipe.payload.github_stats.total_commits_estimate = pipe.stats.r.v.totalCommits
          /\ pipe.payload.candidate.profile = pipe.profile.r.v
    /\ (\E f \in {"stats", "topLangs", "profile"} : pipe[f].settled /\ ~pipe[f].r.ok) =>
          pipe.posts = 0

\* the three fetches have resolved and the payload, with the job role attached,
\* has been posted; the scoring engine has not answered yet
C21_Witness ==
    /\ pipe.pc = "score"
    /\ pipe.posts = 1
    /\ pipe.payload.job_role.title = BaseQuery.job_title.s
    /\ pipe.payload.candidate.profile.account_age_years = 2

\* C22: every request the handler has admitted is eventually answered: whether
\* it waits for the data source or for the scoring engine, it does not wait
\* forever.
C22_EveryAdmittedRequestAnswered ==
    (pipe.pc \in {"aggregate", "score"}) ~> (pipe.pc = "done")

\* C23: whenever the profile request has failed (a rejection, or errors in the
\* body), fetchUserProfile has resolved to 0 repositories, 0 followers and an
\* account age of 1 year, so that the aggregation goes on; whenever the
\* statistics fetch has failed, the request has been answered 500 and nothing
\* was posted.
C23_ProfileFailureNeverAborts ==
    /\ (pipe.res.settled /\ (~pipe.res.r.ok \/ pipe.res.r.v.errors)) =>
          pipe.profile.r = Ok([public_repos |-> 0, followers |-> 0,
                               account_age_years |-> 1])
    /\ (pipe.stats.settled /\ ~pipe.stats.r.ok) =>
          /\ pipe.pc = "done"
          /\ pipe.posts = 0
          /\ pipe.resp.status = 500

\* a header that is there, with a value: the empty string counts as absent
Present(v) == IsString(v) /\ v.s # <<>>

\* C24: the identifier is the first comma-separated token of x-forwarded-for
\* without the spaces around it when the header is present (with a value), else
\* x-real-ip, else the peer address, else "unknown"; and what the limiter does
\* to its map and answers the handler is what checkRateLimit does for this
\* identifier, the same whatever the username and the other query parameters.
C24_ClientIdentifierAndKey ==
    valResult.fn = "getClientIdentifier" =>
        LET req == valInput.req
            expected == IF Present(req.forwarded) THEN valInput.token
                        ELSE IF Present(req.realIp) THEN req.realIp.s
                        ELSE IF Present(req.remoteAddress) THEN req.remoteAddress.s
                        ELSE <<"u","n","k","n","o","w","n">>
            before == IF valInput.used = 0 THEN << >>
                      ELSE (expected :> [count |-> valInput.used,
                                         resetAt |-> now + HandlerWindowMs])
            after == IF valInput.used = 0
                     THEN (expected :> [count |-> 1, resetAt |-> now + HandlerWindowMs])
                     ELSE IF valInput.used < HandlerMaxRequests
                     THEN (expected :> [count |-> valInput.used + 1,
                                        resetAt |-> now + HandlerWindowMs])
                     ELSE before
        IN  /\ valResult.id = expected
            /\ valResult.run.map = after
            /\ valResult.run.gate.allowed = (valInput.used < HandlerMaxRequests)
            /\ valResult.run.map = valResult.base.map
            /\ valResult.run.gate = valResult.base.gate

\* the identifier came from a padded first token of x-forwarded-for although
\* the other two sources were there, and the request, with a username and a
\* query other than those of Test 1, used the last unit of the budget
C24_Witness ==
    /\ valResult.fn = "getClientIdentifier"
    /\ valInput.req.forwarded = Str(<<" ","1","0",".","0",".","0",".","1"," ",","," ","1","0",".","9",".","9",".","9">>)
    /\ Present(valInput.req.realIp)
    /\ Present(valInput.req.remoteAddress)
    /\ valInput.q # BaseQuery
    /\ valInput.used = HandlerMaxRequests - 1
    /\ valResult.id = <<"1","0",".","0",".","0",".","1">>
    /\ valResult.run.gate.remaining = 0
    /\ valResult.run.gate.allowed

\* C25: for an account of at least one year, the commit frequency is low below
\* 50 commits per year, medium from 50 and below 200, high from 200; the
\* commit consistency is sporadic below 2 commits per month (24 per year),
\* consistent from 2 and below 10, very_consistent from 10 (120 per year);
\* 240 commits in 2 years are medium and very_consistent.
C25_CommitClassification ==
    (valResult.fn = "commitMetrics" /\ valInput.accountAgeYears >= 1) =>
        LET c == valInput.totalCommits
            a == valInput.accountAgeYears
        IN  /\ valResult.commit_frequency =
                  IF c < 50 * a THEN "low" ELSE IF c < 200 * a THEN "medium" ELSE "high"
            /\ valResult.commit_consistency =
                  IF c < 2 * 12 * a THEN "sporadic"
                  ELSE IF c < 10 * 12 * a THEN "consistent"
                  ELSE "very_consistent"
            /\ (c = 240 /\ a = 2) =>
                  /\ valResult.commit_frequency = "medium"
                  /\ valResult.commit_consistency = "very_consistent"

\* 240 commits in 2 years have been classified
C25_Witness ==
    /\ valResult.fn = "commitMetrics"
    /\ valInput.totalCommits = 240
    /\ valInput.accountAgeYears = 2
    /\ valResult.commit_frequency = "medium"
    /\ valResult.commit_consistency = "very_consistent"

\* the signal of a list of n repositories of which k have a long enough
\* description: the first level when k / n < lo / 10, the second when
\* k / n < hi / 10, else the third
Bucket(k, n, lo, hi, levels) ==
    IF 10 * k < lo * n THEN levels[1]
    ELSE IF 10 * k < hi * n THEN levels[2]
    ELSE levels[3]

\* C26, as stated: for a non-empty list the documentation signal has the cut
\* points 0.3 and 0.7 and the README quality the cut points 0.4 and 0.7.
C26_CutPointsAsStated ==
    (valResult.fn = "repositorySignals" /\ valInput.n >= 1) =>
        /\ valResult.documentation_signal =
              Bucket(valInput.over30, valInput.n, 3, 7, <<"low", "medium", "high">>)
        /\ valResult.readme_quality =
              Bucket(valInput.over20, valInput.n, 4, 7, <<"poor", "average", "strong">>)

\* C26, amended: for a non-empty list the documentation signal has the cut
\* points 0.4 and 0.7 on the share of descriptions longer than 30 characters,
\* the README quality the cut points 0.3 and 0.7 on the share of descriptions
\* longer than 20 characters; a share equal to a cut point is in the upper
\* bucket.
C26_CutPoints ==
    (valResult.fn = "repositorySignals" /\ valInput.n >= 1) =>
        /\ valResult.documentation_signal =
              Bucket(valInput.over30, valInput.n, 4, 7, <<"low", "medium", "high">>)
        /\ valResult.readme_quality =
              Bucket(valInput.over20, valInput.n, 3, 7, <<"poor", "average", "strong">>)

\* 3 of 10 descriptions are long: the share 0.3 is average for the README
\* quality and low for the documentation signal
C26_Witness ==
    /\ valResult.fn = "repositorySignals"
    /\ valInput.n = 10
    /\ valInput.over20 = 3
    /\ valInput.over30 = 3
    /\ valResult.readme_quality = "average"
    /\ valResult.documentation_signal = "low"

\* C27: whatever the three fetches resolved to, the aggregate has an empty
\* top_repositories, readme_quality poor, documentation_signal low, a solo
\* projects ratio of 1 and a team projects ratio of 0.
C27_PlaceholderSignals ==
    pipe.payload # NoPayload =>
        LET github_stats == pipe.payload.github_stats
        IN  /\ github_stats.top_repositories = <<>>
            /\ github_stats.readme_quality = "poor"
            /\ github_stats.documentation_signal = "low"
            /\ github_stats.collaboration_signals.solo_projects_ratio = [n |-> 1, d |-> 1]
            /\ github_stats.collaboration_signals.team_projects_ratio = [n |-> 0, d |-> 1]

\* the aggregate of a user who contributed to 3 repositories, has 240 commits,
\* six languages and an account of two years
C27_Witness ==
    /\ pipe.payload # NoPayload
    /\ pipe.stats.r.v.contributedTo = 3
    /\ pipe.payload.github_stats.total_commits_estimate = 240
    /\ Len(pipe.payload.github_stats.primary_languages) = 5
    /\ pipe.payload.github_stats.primary_languages[1].language = "JavaScript"
    /\ pipe.payload.github_stats.commit_frequency = "medium"
    /\ pipe.payload.candidate.profile.account_age_years = 2

\* C28: every record of the map has 1 <= count <= maxRequests, and the remaining
\* value of an allowed call is maxRequests less the calls admitted for the
\* identifier in its current window, this one included: it lies between 0 and
\* maxRequests - 1.
C28_CountAndRemaining ==
    /\ \A id \in DOMAIN rateLimitMap :
          /\ 1 <= rateLimitMap[id].count
          /\ rateLimitMap[id].count <= maxReq
          /\ rateLimitMap[id].count = winAdmitted[id]
    /\ (out.ev = "call" /\ out.gate.allowed) =>
          /\ out.gate.remaining = maxReq - winAdmitted[out.id]
          /\ out.gate.remaining >= 0
          /\ out.gate.remaining <= maxReq - 1

\* the last of 10 admitted calls of a window that is not the first: remaining
\* has come down to 0 and the record is full
C28_Witness ==
    /\ out.ev = "call"
    /\ out.gate.allowed
    /\ maxReq = HandlerMaxRequests
    /\ now > 0
    /\ out.gate.resetAt = now + HandlerWindowMs
    /\ out.gate.remaining = 0
    /\ rateLimitMap[out.id].count = HandlerMaxRequests

\* the window of the identifier's record ends at the last time point or after:
\* the clock of the model stops before the next window
WindowOutlastsClock(id) ==
    IF id \in DOMAIN rateLimitMap
    THEN \A t \in TimePoints : t <= rateLimitMap[id].resetAt
    ELSE FALSE

\* C29: every denied call is followed by an allowed call of the same identifier
\* (unless the window it was denied in outlasts the clock of the model), and a
\* denied call leaves the resetAt of the record where it was.
C29_NoLockout ==
    /\ \A id \in ClientIds :
          (out.ev = "call" /\ out.id = id /\ ~out.gate.allowed)
              ~> \/ out.ev = "call" /\ out.id = id /\ out.gate.allowed
                 \/ WindowOutlastsClock(id)
    /\ [][\A id \in ClientIds :
             (out'.ev = "call" /\ out'.id = id /\ ~out'.gate.allowed) =>
                 /\ rateLimitMap'[id].resetAt = rateLimitMap[id].resetAt
                 /\ out'.gate.resetAt = rateLimitMap[id].resetAt]_vars

\* a call was denied more than once in a window that ends before the clock of
\* the model does: time can pass its resetAt
C29_Witness ==
    /\ out.ev = "call"
    /\ ~out.gate.allowed
    /\ out.idx >= maxReq + 2
    /\ ~WindowOutlastsClock(out.id)
    /\ now < out.gate.resetAt

\* C30: a request to the handler with the limiter that is not answered 429,
\* whether it is answered 400 or 500 at once or suspended, adds exactly one to
\* the count of its identifier's window (1 in a new window); the steps that
\* answer a suspended request later, with 200 or 500, leave the map as it is.
C30_OneUnitPerRequest ==
    [][/\ \A id \in ClientIds :
             (/\ out'.h = "main" /\ out'.q # NoQuery /\ out'.id = id
              /\ out'.ev \in {"admit", "respond"}
              /\ out'.resp.status # 429) =>
                 /\ id \in DOMAIN rateLimitMap'
                 /\ rateLimitMap'[id].count =
                       IF id \notin DOMAIN rateLimitMap THEN 1
                       ELSE IF now > rateLimitMap[id].resetAt THEN 1
                       ELSE rateLimitMap[id].count + 1
                 /\ \A other \in DOMAIN rateLimitMap \ {id} :
                       rateLimitMap'[other] = rateLimitMap[other]
       /\ (out'.ev \in {"post", "respond"} /\ out'.q = NoQuery) =>
             rateLimitMap' = rateLimitMap]_vars

\* a request rejected for its username has used the tenth unit of the window
C30_Witness ==
    /\ out.ev = "respond"
    /\ out.h = "main"
    /\ out.resp.status = 400
    /\ out.stage = "username"
    /\ out.gate.allowed
    /\ out.gate.remaining = 0
    /\ rateLimitMap[out.id].count = HandlerMaxRequests
====
